---- MODULE Spec2Model ----
(***************************************************************************)
(* Sticker generator: the seven controller pipelines that turn generated   *)
(* frames into an animated WebP (controllers/*.py), one request at a time. *)
(*   free_animation, gemini_animation, replicate_animation : prompt        *)
(*       expansion -> one image per prompt -> ping-pong loop -> encode     *)
(*   free_sticker, gemini_sticker, replicate_sticker : one image ->        *)
(*       20 synthetic motion frames -> encode                              *)
(*   video : video frames -> prepare_frames_for_whatsapp -> encode         *)
(* Images are modelled by what the pipeline reads of them: their size,     *)
(* the input frame they come from, and what was pasted or rotated.         *)
(***************************************************************************)
EXTENDS Integers, Sequences, FiniteSets, TLC

VARIABLES
    pipeline,     \* which controller serves the request
    pc,           \* position of the request in its controller
    outcome,      \* "running", "returned" or "raised"
    requested,    \* num_frames argument as passed by the caller
    num_frames,   \* num_frames the controller works with
    fps,          \* fps argument
    animation,    \* animation argument (single-image pipelines)
    raw_size,     \* side of the images the image service returns
    clip_len,     \* seconds of video the video service returns
    prompts,      \* list returned by generate_frame_prompts
    frames,       \* frames / frame_paths / animated_frames collected so far
    frames_loop,  \* the sequence handed to the encoder
    enc_rate,     \* the rate the duration is computed from
    duration,     \* duration argument of Image.save
    saves,        \* every Image.save to the output path, in order
    printed,      \* console messages that matter to the caller's view
    ret,          \* return value of the controller
    image_calls,  \* calls made to the image generation service
    calls,        \* calls of prepare_frames_for_whatsapp: arguments and result
    attempt,      \* polls of the video job made so far
    slept,        \* seconds spent in asyncio.sleep between polls
    video_url,    \* the result URL the poll loop obtained, or "none"
    error,        \* message of the exception that left the controller
    tries,        \* failed calls of generate_frame_image for the frame in progress
    files,        \* the files of the working directory and of outputs/
    req,          \* the concurrent requests of one endpoint
    task_storage, \* task_storage of routes/video_model_animation.py
    served,       \* the last status codes get_transparent answered, in order
    threshold,    \* threshold argument of remove_white_background
    source,       \* pixels of the image passed to remove_white_background
    pixels,       \* pixels of the RGBA copy remove_white_background works on
    scan,         \* pixels the scan of remove_white_background has visited
    response,     \* what the last poll of the video job answered
    frame_attempts, \* the attempts of the generate_frame_image call in progress
    temp_files,   \* indices i of the frame_<i>.png files on disk
    connected,    \* runware.connect() has returned
    disconnects,  \* calls of runware.disconnect()
    cwd,          \* os.getcwd() of the GUI process, as characters
    buttons,      \* isEnabled() of the generate button of every panel
    workers       \* the WorkerThreads started, in order

\* the variables of the concurrent requests and of the task routes
conc_vars == << files, req, task_storage, served >>

\* the variables of remove_white_background
bg_vars == << threshold, source, pixels, scan >>

\* the variables of the functions and handlers modelled on their own
\* the connection of a Runware video function
run_vars == << connected, disconnects >>

\* the window of sticker_app.py and its worker threads
gui_vars == << cwd, buttons, workers >>

more_vars == << bg_vars, run_vars, gui_vars >>

\* the variables outside the locals of one request: negotiation calls,
\* poll loop, retry loop, files and concurrent requests
ext_vars == << calls, attempt, slept, video_url, error, tries, response,
              frame_attempts, temp_files, conc_vars, more_vars >>

vars == << pipeline, pc, outcome, requested, num_frames, fps, animation,
           raw_size, clip_len, prompts, frames, frames_loop, enc_rate,
           duration, saves, printed, ret, image_calls, ext_vars >>

----------------------------------------------------------------------------
\* Bounds of the model

MaxRequested == 7
MaxPrompts == 7
MaxFps == 15

----------------------------------------------------------------------------
\* Program constants

STICKER_SIZE == 512
NUM_STICKER_FRAMES == 20
FIXED_DURATION == 67
VIDEO_SIZE == 640
MAX_DURATION == 10
MIN_FRAMES == 2
MAX_FRAMES == 6
REPLICATE_ANIMATION_FPS == 3

MultiFrame == {"free_animation", "gemini_animation", "replicate_animation"}
SingleImage == {"free_sticker", "gemini_sticker", "replicate_sticker"}
Pipelines == MultiFrame \cup SingleImage \cup {"video"}

\* Motion kinds a caller may send; "spin" is handled by no controller.
Animations == {"float", "bounce", "pulse", "wiggle", "shake", "static", "spin"}

FpsValues == 1..MaxFps
VideoFpsValues == {5, 10, 24, 30, 60, 90}
RawSizes == {512, 1024}

\* Sizes os.path.getsize may report, on both sides of every threshold in use.
FileSizes == {400 * 1024, 500 * 1024, 500 * 1024 + 1, 1000 * 1024,
              1000 * 1024 + 1, 1500 * 1024, 1500 * 1024 + 1,
              5000 * 1024, 5000 * 1024 + 1}

----------------------------------------------------------------------------
\* Python arithmetic

Min(a, b) == IF a <= b THEN a ELSE b
Max(a, b) == IF a >= b THEN a ELSE b
Abs(a) == IF a >= 0 THEN a ELSE -a

\* int(n / d): truncation toward zero, d > 0
TruncDiv(n, d) == IF n >= 0 THEN n \div d ELSE -((-n) \div d)

\* n // d for d > 0
FloorDiv(n, d) == n \div d

\* round(n / d): Python 3 rounds halves to the even neighbour
PyRound(n, d) ==
    LET q == n \div d
        r == n % d
    IN  IF 2 * r < d THEN q
        ELSE IF 2 * r > d THEN q + 1
        ELSE IF q % 2 = 0 THEN q ELSE q + 1

\* s[start:stop:-1] for a Python list s (0-based), as CPython adjusts the
\* indices of a slice with a negative step.
SliceRevStart(len, start) ==
    IF start < 0 THEN (IF start + len < 0 THEN -1 ELSE start + len)
    ELSE IF start >= len THEN len - 1 ELSE start

PySliceRev(s, start, stop) ==
    LET len == Len(s)
        lo == SliceRevStart(len, stop)
        hi == SliceRevStart(len, start)
        cnt == IF hi > lo THEN hi - lo ELSE 0
    IN  [k \in 1..cnt |-> s[(hi - (k - 1)) + 1]]

\* Variant: s[::step] that drops a last partial stride
PyStrideFloor(s, step) ==
    LET cnt == Len(s) \div step
    IN  [k \in 1..cnt |-> s[(k - 1) * step + 1]]

\* s[::step] for step > 0
PyStride(s, step) ==
    LET cnt == (Len(s) + step - 1) \div step
    IN  [k \in 1..cnt |-> s[(k - 1) * step + 1]]

----------------------------------------------------------------------------
\* Loop building and timing (create_animated_webp / create_animated_sticker)

\* frame.convert("RGBA").resize((512, 512)) after background removal
ProcessFrame(f) == [f EXCEPT !.w = STICKER_SIZE, !.h = STICKER_SIZE]

ProcessFrames(fs) == [k \in 1..Len(fs) |-> ProcessFrame(fs[k])]

\* Variants of the loop slice, each one off in one index:
\* frames[-1:0:-1] repeats the last frame
BuildLoopRepeatLast(fs) == fs \o PySliceRev(fs, -1, 0)

\* frames[1:-1] appends the interior frames without reversing them
BuildLoopForwardInterior(fs) == fs \o [k \in 1..(IF Len(fs) >= 2 THEN Len(fs) - 2 ELSE 0) |-> fs[k + 1]]

\* frames[-2::-1] runs down to the first frame
BuildLoopToFirst(fs) ==
    LET hi == SliceRevStart(Len(fs), -2)
    IN  fs \o [k \in 1..(hi + 1) |-> fs[(hi - (k - 1)) + 1]]

\* frames_loop = processed_frames + processed_frames[-2:0:-1]
BuildLoop(fs) == fs \o PySliceRev(fs, -2, 0)

\* Variant: duration = round(1000 / fps)
DurationRounded(rate) == PyRound(1000, rate)

\* duration = 1000 // fps
Duration(rate) == FloorDiv(1000, rate)

\* duration = int(1000 / final_fps)
VideoDuration(rate) == TruncDiv(1000, rate)

----------------------------------------------------------------------------
\* Encoder settings of each pipeline

\* quality of the first Image.save
FirstQuality(p) ==
    CASE p = "replicate_sticker" -> 90
      [] p = "video" -> 50
      [] OTHER -> 85

\* quality of the corrective Image.save
SecondQuality(p) == IF p = "replicate_sticker" THEN 70 ELSE 60

\* The size condition that triggers the corrective save:
\*   os.path.getsize(output_path) > MAX_FILE_SIZE   (free_*, gemini_*)
\*   size_kb > 1000                                 (replicate_animation)
\*   size_kb > 1500                                 (replicate_sticker)
\* the video pipeline has no corrective save.
MAX_FILE_SIZE(p) == IF p = "free_sticker" THEN 5000 * 1024 ELSE 500 * 1024

NeedsCompression(p, size) ==
    CASE p = "replicate_animation" -> size > 1000 * 1024
      [] p = "replicate_sticker" -> size > 1500 * 1024
      [] p = "video" -> FALSE
      [] OTHER -> size > MAX_FILE_SIZE(p)

\* Variant: the return value carries an over-budget flag
ReturnValueFlagged(p, final_size) ==
    IF final_size > 500 * 1024 THEN << "over_budget", p >> ELSE << "within_budget", p >>

\* What the controller returns; it is computed without looking at the size.
ReturnValue(p, final_size) ==
    IF p = "video" THEN << "original_video_path", "transparent_webp_path" >>
    ELSE "output_path"

\* The record of one Image.save(output_path, ...)
SaveRecord(fs, d, q, size) ==
    [quality |-> q, duration |-> d, nframes |-> Len(fs), size |-> size]

----------------------------------------------------------------------------
\* Synthetic motion (create_animated_webp of the single-image pipelines)

\* sin(2*pi*k/20) in millionths, k = 0..19
SinTable == << 0, 309017, 587785, 809017, 951057, 1000000, 951057, 809017,
               587785, 309017, 0, -309017, -587785, -809017, -951057,
               -1000000, -951057, -809017, -587785, -309017 >>

\* math.sin(2 * math.pi * k / num_frames) in millionths
Sin(k) == SinTable[(k % NUM_STICKER_FRAMES) + 1]

\* Image.new("RGBA", (w, h), (0, 0, 0, 0))
ImageNew(w, h) == [w |-> w, h |-> h, rot |-> 0, pasted |-> << >>]

\* image.resize((w, h)): the result has the size asked for
ImageResize(img, w, h) == [img EXCEPT !.w = w, !.h = h]

\* image.rotate(angle, expand=False): the size is kept
ImageRotate(img, angle) == [img EXCEPT !.rot = angle]

\* canvas.paste(img, pos, img): the canvas keeps its size
ImagePaste(canvas, img, pos) ==
    [canvas EXCEPT !.pasted = Append(@, [w |-> img.w, h |-> img.h,
                                          rot |-> img.rot, pos |-> pos])]

\* The source image as the image service returned it, then after
\* image.resize((STICKER_SIZE, STICKER_SIZE))
SourceImage == ImageNew(raw_size, raw_size)

BaseImage == ImageResize(SourceImage, STICKER_SIZE, STICKER_SIZE)

Centered(img) == << (STICKER_SIZE - img.w) \div 2, (STICKER_SIZE - img.h) \div 2 >>

\* Variant: "static" is matched by name and the else branch floats
SynthFrameCanvasElseFloat(anim, image, i) ==
    LET frame == ImageNew(STICKER_SIZE, STICKER_SIZE)
        c == Centered(image)
    IN  CASE anim = "static" -> ImagePaste(frame, image, c)
          [] anim = "bounce" ->
               LET offset_y == TruncDiv(Abs(Sin(i)) * 25, 1000000)
               IN  ImagePaste(frame, image, << c[1], c[2] - offset_y >>)
          [] anim = "pulse" ->
               LET new_size == TruncDiv((STICKER_SIZE \div 64) * (9000000 + Sin(i)),
                                        10000000 \div 64)
                   scaled == ImageResize(image, new_size, new_size)
                   pos == << (STICKER_SIZE - new_size) \div 2,
                             (STICKER_SIZE - new_size) \div 2 >>
               IN  ImagePaste(frame, scaled, pos)
          [] anim = "wiggle" ->
               LET rotated == ImageRotate(image, Sin(i) * 8)
               IN  ImagePaste(frame, rotated, Centered(rotated))
          [] OTHER ->
               LET offset_y == TruncDiv(Sin(i) * 15, 1000000)
               IN  ImagePaste(frame, image, << c[1], c[2] + offset_y >>)

\* free_sticker.py / gemini_sticker.py, the body of "for i in range(num_frames)"
SynthFrameCanvas(anim, image, i) ==
    LET frame == ImageNew(STICKER_SIZE, STICKER_SIZE)
        c == Centered(image)
    IN  CASE anim = "float" ->
               LET offset_y == TruncDiv(Sin(i) * 15, 1000000)
               IN  ImagePaste(frame, image, << c[1], c[2] + offset_y >>)
          [] anim = "bounce" ->
               LET offset_y == TruncDiv(Abs(Sin(i)) * 25, 1000000)
               IN  ImagePaste(frame, image, << c[1], c[2] - offset_y >>)
          [] anim = "pulse" ->
               \* scale = 0.9 + 0.1 * sin; new_size = int(STICKER_SIZE * scale)
               \* (numerator and denominator divided by 64 to stay in 32 bits)
               LET new_size == TruncDiv((STICKER_SIZE \div 64) * (9000000 + Sin(i)),
                                        10000000 \div 64)
                   scaled == ImageResize(image, new_size, new_size)
                   pos == << (STICKER_SIZE - new_size) \div 2,
                             (STICKER_SIZE - new_size) \div 2 >>
               IN  ImagePaste(frame, scaled, pos)
          [] anim = "wiggle" ->
               LET rotated == ImageRotate(image, Sin(i) * 8)
               IN  ImagePaste(frame, rotated, Centered(rotated))
          [] OTHER -> ImagePaste(frame, image, c)

\* Variant: "pulse" appends the scaled image instead of the canvas
SynthFrameReplicateNoCanvas(anim, img, i) ==
    LET frame == ImageNew(512, 512)
        small == ImageResize(img, 480, 480)
    IN  CASE anim = "bounce" ->
               LET offset == TruncDiv(25 * Abs(Sin(i)), 1000000)
               IN  ImagePaste(frame, small, << 16, 32 - offset >>)
          [] anim = "shake" ->
               LET offset == TruncDiv(15 * Sin(2 * i), 1000000)
               IN  ImagePaste(frame, small, << 16 + offset, 16 >>)
          [] anim = "pulse" ->
               LET new_size == TruncDiv((512 \div 64) * (85000000 + 15 * Abs(Sin(i))),
                                        100000000 \div 64)
               IN  ImageResize(img, new_size, new_size)
          [] anim = "wiggle" ->
               LET rotated == ImageRotate(img, 8 * Sin(2 * i))
               IN  ImageResize(rotated, 512, 512)
          [] OTHER -> img

\* replicate_sticker.py, the body of "for i in range(frames)"
SynthFrameReplicate(anim, img, i) ==
    LET frame == ImageNew(512, 512)
        small == ImageResize(img, 480, 480)
    IN  CASE anim = "bounce" ->
               LET offset == TruncDiv(25 * Abs(Sin(i)), 1000000)
               IN  ImagePaste(frame, small, << 16, 32 - offset >>)
          [] anim = "shake" ->
               LET offset == TruncDiv(15 * Sin(2 * i), 1000000)
               IN  ImagePaste(frame, small, << 16 + offset, 16 >>)
          [] anim = "pulse" ->
               \* scale = 0.85 + 0.15 * abs(sin); new_size = int(512 * scale)
               \* (numerator and denominator divided by 64 to stay in 32 bits)
               LET new_size == TruncDiv((512 \div 64) * (85000000 + 15 * Abs(Sin(i))),
                                        100000000 \div 64)
                   scaled == ImageResize(img, new_size, new_size)
                   offset == (512 - new_size) \div 2
               IN  ImagePaste(frame, scaled, << offset, offset >>)
          [] anim = "wiggle" ->
               LET rotated == ImageRotate(img, 8 * Sin(2 * i))
               IN  ImageResize(rotated, 512, 512)
          [] OTHER -> img

SynthFrame(p, anim, img, i) ==
    IF p = "replicate_sticker" THEN SynthFrameReplicate(anim, img, i)
    ELSE SynthFrameCanvas(anim, img, i)

\* The motion kinds a controller has a branch for ("static" is its else branch)
Supported(p) ==
    IF p = "replicate_sticker" THEN {"bounce", "shake", "pulse", "wiggle", "static"}
    ELSE {"float", "bounce", "pulse", "wiggle", "static"}

----------------------------------------------------------------------------
\* Size negotiation of the video pipeline (prepare_frames_for_whatsapp)

\* estimated_size = num_frames * (frame_w / 512) * (frame_h / 512) * 4000,
\* that is num_frames * frame_w * frame_h * 125 / 8192, rounded down and up
\* (split into quotient and remainder to stay in 32 bits).
EstimatedFloor(n, w, h) ==
    LET a == n * w * h
    IN  (a \div 8192) * 125 + ((a % 8192) * 125) \div 8192

EstimatedCeil(n, w, h) ==
    LET a == n * w * h
    IN  (a \div 8192) * 125 + ((a % 8192) * 125 + 8191) \div 8192

\* ratio <= k, for ratio = estimated_size / target_size
RatioAtMost(n, w, h, target_size, k) == EstimatedCeil(n, w, h) <= k * target_size

\* int(ratio / 4)
RatioQuarter(n, w, h, target_size) == EstimatedFloor(n, w, h) \div (4 * target_size)

ResizeAll(fs, side) == [k \in 1..Len(fs) |-> [fs[k] EXCEPT !.w = side, !.h = side]]

\* Variant: the heavy tier resizes to 384x384, above the medium tier
PrepareHeavyAt384(fs, rate, target_size) ==
    LET n == Len(fs)
        w == fs[1].w
        h == fs[1].h
    IN  IF RatioAtMost(n, w, h, target_size, 1) THEN
            [frames |-> fs, fps |-> rate]
        ELSE IF RatioAtMost(n, w, h, target_size, 2) THEN
            [frames |-> ResizeAll(fs, 384), fps |-> rate]
        ELSE IF RatioAtMost(n, w, h, target_size, 4) THEN
            [frames |-> ResizeAll(fs, 320), fps |-> rate]
        ELSE IF RatioAtMost(n, w, h, target_size, 8) THEN
            [frames |-> ResizeAll(PyStride(fs, 2), 384),
             fps |-> Max(FloorDiv(rate, 2), 5)]
        ELSE
            LET skip == Max(3, RatioQuarter(n, w, h, target_size))
            IN  [frames |-> ResizeAll(PyStride(fs, skip), 256),
                 fps |-> Max(FloorDiv(rate, skip), 4)]

\* Variant: the medium tier keeps every 2nd frame only
PrepareMediumSkips(fs, rate, target_size) ==
    LET n == Len(fs)
        w == fs[1].w
        h == fs[1].h
    IN  IF RatioAtMost(n, w, h, target_size, 1) THEN
            [frames |-> fs, fps |-> rate]
        ELSE IF RatioAtMost(n, w, h, target_size, 2) THEN
            [frames |-> ResizeAll(fs, 384), fps |-> rate]
        ELSE IF RatioAtMost(n, w, h, target_size, 4) THEN
            [frames |-> ResizeAll(PyStride(fs, 2), 320), fps |-> rate]
        ELSE IF RatioAtMost(n, w, h, target_size, 8) THEN
            [frames |-> ResizeAll(PyStride(fs, 2), 256),
             fps |-> Max(FloorDiv(rate, 2), 5)]
        ELSE
            LET skip == Max(3, RatioQuarter(n, w, h, target_size))
            IN  [frames |-> ResizeAll(PyStride(fs, skip), 256),
                 fps |-> Max(FloorDiv(rate, skip), 4)]

\* Variant: the extreme tier lets the stride fall to 2
PrepareExtremeStride2(fs, rate, target_size) ==
    LET n == Len(fs)
        w == fs[1].w
        h == fs[1].h
    IN  IF RatioAtMost(n, w, h, target_size, 1) THEN
            [frames |-> fs, fps |-> rate]
        ELSE IF RatioAtMost(n, w, h, target_size, 2) THEN
            [frames |-> ResizeAll(fs, 384), fps |-> rate]
        ELSE IF RatioAtMost(n, w, h, target_size, 4) THEN
            [frames |-> ResizeAll(fs, 320), fps |-> rate]
        ELSE IF RatioAtMost(n, w, h, target_size, 8) THEN
            [frames |-> ResizeAll(PyStride(fs, 2), 256),
             fps |-> Max(FloorDiv(rate, 2), 5)]
        ELSE
            LET skip == Max(2, RatioQuarter(n, w, h, target_size))
            IN  [frames |-> ResizeAll(PyStride(fs, skip), 256),
                 fps |-> Max(FloorDiv(rate, skip), 4)]

\* Variant: the heavy tier floors the rate at 6
PrepareHeavyFloor6(fs, rate, target_size) ==
    LET n == Len(fs)
        w == fs[1].w
        h == fs[1].h
    IN  IF RatioAtMost(n, w, h, target_size, 1) THEN
            [frames |-> fs, fps |-> rate]
        ELSE IF RatioAtMost(n, w, h, target_size, 2) THEN
            [frames |-> ResizeAll(fs, 384), fps |-> rate]
        ELSE IF RatioAtMost(n, w, h, target_size, 4) THEN
            [frames |-> ResizeAll(fs, 320), fps |-> rate]
        ELSE IF RatioAtMost(n, w, h, target_size, 8) THEN
            [frames |-> ResizeAll(PyStride(fs, 2), 256),
             fps |-> Max(FloorDiv(rate, 2), 6)]
        ELSE
            LET skip == Max(3, RatioQuarter(n, w, h, target_size))
            IN  [frames |-> ResizeAll(PyStride(fs, skip), 256),
                 fps |-> Max(FloorDiv(rate, skip), 4)]

\* prepare_frames_for_whatsapp(frames, fps, target_size)
prepare_frames_for_whatsapp(fs, rate, target_size) ==
    LET n == Len(fs)
        w == fs[1].w
        h == fs[1].h
    IN  IF RatioAtMost(n, w, h, target_size, 1) THEN
            [frames |-> fs, fps |-> rate]
        ELSE IF RatioAtMost(n, w, h, target_size, 2) THEN
            [frames |-> ResizeAll(fs, 384), fps |-> rate]
        ELSE IF RatioAtMost(n, w, h, target_size, 4) THEN
            [frames |-> ResizeAll(fs, 320), fps |-> rate]
        ELSE IF RatioAtMost(n, w, h, target_size, 8) THEN
            [frames |-> ResizeAll(PyStride(fs, 2), 256),
             fps |-> Max(FloorDiv(rate, 2), 5)]
        ELSE
            LET skip == Max(3, RatioQuarter(n, w, h, target_size))
            IN  [frames |-> ResizeAll(PyStride(fs, skip), 256),
                 fps |-> Max(FloorDiv(rate, skip), 4)]

----------------------------------------------------------------------------
\* The request

\* no negotiation call made, no poll made, no exception raised
LoopsIdle ==
    /\ calls = << >>
    /\ attempt = 0
    /\ slept = 0
    /\ video_url = "none"
    /\ error = "none"
    /\ tries = 0
    /\ response = "none"
    /\ frame_attempts = << >>
    /\ temp_files = {}

\* no concurrent request, no task
ConcIdle ==
    /\ files = << >>
    /\ req = << >>
    /\ task_storage = << >>
    /\ served = << >>

\* remove_white_background is not running
BgIdle ==
    /\ threshold = 0
    /\ source = << >>
    /\ pixels = << >>
    /\ scan = 0

\* no connection was opened
RunIdle ==
    /\ connected = FALSE
    /\ disconnects = 0

\* no window
GuiIdle ==
    /\ cwd = << >>
    /\ buttons = << >>
    /\ workers = << >>

MoreIdle == BgIdle /\ RunIdle /\ GuiIdle

ExtInit == LoopsIdle /\ ConcIdle /\ MoreIdle

Init ==
    /\ pipeline \in Pipelines
    /\ pc = "start"
    /\ outcome = "running"
    /\ requested \in (IF pipeline \in MultiFrame THEN 1..MaxRequested ELSE {0})
    /\ num_frames = requested
    /\ fps \in (CASE pipeline \in {"free_animation", "gemini_animation",
                                   "replicate_sticker"} -> FpsValues
                  [] pipeline = "video" -> VideoFpsValues
                  [] OTHER -> {0})
    /\ animation \in (IF pipeline \in SingleImage THEN Animations ELSE {"none"})
    /\ raw_size \in (IF pipeline = "video" THEN {VIDEO_SIZE} ELSE RawSizes)
    /\ clip_len \in (IF pipeline = "video" THEN 1..MAX_DURATION ELSE {0})
    /\ prompts = << >>
    /\ frames = << >>
    /\ frames_loop = << >>
    /\ enc_rate = 0
    /\ duration = 0
    /\ saves = << >>
    /\ printed = {}
    /\ ret = "none"
    /\ image_calls = 0
    /\ ExtInit

\* An exception leaves the controller
Raise ==
    /\ pc' = "failed"
    /\ outcome' = "raised"

\* num_frames = max(2, min(num_frames, 6)) in free_animation only
ClampFrames(p, n) ==
    IF p = "free_animation" THEN Max(MIN_FRAMES, Min(n, MAX_FRAMES)) ELSE n

\* "if len(prompts) != num_frames: raise" exists in free_animation only
PromptCountRejected(p, ps, n) == p = "free_animation" /\ Len(ps) # n

\* generate_animated_sticker up to the frame loop: generate_frame_prompts
\* returns k prompts, whatever count was asked for
ExpandPrompts ==
    /\ pc = "start"
    /\ pipeline \in MultiFrame
    /\ num_frames' = ClampFrames(pipeline, requested)
    /\ \E k \in 0..MaxPrompts :
         /\ prompts' = [j \in 1..k |-> j - 1]
         /\ IF PromptCountRejected(pipeline, prompts', num_frames')
            THEN Raise
            ELSE pc' = "generate" /\ outcome' = outcome
    /\ UNCHANGED << pipeline, requested, fps, animation, raw_size, clip_len,
                    frames, frames_loop, enc_rate, duration, saves, printed,
                    ret, image_calls >>
    /\ UNCHANGED ext_vars

\* the prompt service call fails
ExpandFails ==
    /\ pc = "start"
    /\ pipeline \in MultiFrame
    /\ num_frames' = ClampFrames(pipeline, requested)
    /\ Raise
    /\ UNCHANGED << pipeline, requested, fps, animation, raw_size, clip_len,
                    prompts, frames, frames_loop, enc_rate, duration, saves,
                    printed, ret, image_calls >>
    /\ UNCHANGED ext_vars

\* generate_frame_image of replicate_animation: max_retries
max_retries == 3

\* how a call of the image service may fail: rate limited ("429" in the
\* message) or otherwise
FailureKinds == {"429", "other"}

\* Variant: attempt < max_retries
RetryAllowedOnceMore(p, kind, attempt_) ==
    p = "replicate_animation" /\ kind = "429" /\ attempt_ < max_retries

\* "if "429" in str(e) and attempt < max_retries - 1: continue" exists in
\* generate_frame_image of replicate_animation only
RetryAllowed(p, kind, attempt_) ==
    p = "replicate_animation" /\ kind = "429" /\ attempt_ < max_retries - 1

\* Variant: the wait before a retry is 15 * attempt
RetryWaitFrom15(attempt_) == 15 * attempt_

\* wait = 15 * (attempt + 1) before a retry
RetryWait(attempt_) == 15 * (attempt_ + 1)

\* the time.sleep at the head of an attempt of generate_frame_image:
\* "if index > 0 or attempt > 0: wait = 12 if attempt == 0 else ..."
\* (0: no sleep)
WaitBefore(index, attempt_) ==
    IF index > 0 \/ attempt_ > 0
    THEN (IF attempt_ = 0 THEN 12 ELSE RetryWait(attempt_))
    ELSE 0

\* the attempts of the generate_frame_image call in progress, with the one
\* that just ended ("ok", or the kind of its failure); only replicate_animation
\* has this loop
AttemptsWith(p, result) ==
    IF p = "replicate_animation"
    THEN Append(IF tries = 0 THEN << >> ELSE frame_attempts,
                [attempt |-> tries,
                 wait |-> WaitBefore(Len(frames), tries),
                 result |-> result])
    ELSE frame_attempts

\* filepath = f"frame_{index}.png" is written by replicate_animation only;
\* the other controllers keep their frames in memory
TempFilesWith(p, index) ==
    IF p = "replicate_animation" THEN temp_files \cup {index} ELSE temp_files

\* "if cleanup: cleanup_frames(num_frames)": frame_0.png .. frame_<n-1>.png
\* are removed if they exist
CleanupFrames(p, n) ==
    IF p = "replicate_animation" THEN temp_files \ (0..(n - 1)) ELSE temp_files

\* what a returning controller leaves alone outside its locals
ReturnUnchanged ==
    UNCHANGED << calls, attempt, slept, video_url, error, tries, response,
                 frame_attempts, conc_vars, more_vars >>

\* one turn of "for i, prompt in enumerate(prompts)": the image is generated
GenerateFrame ==
    /\ pc = "generate"
    /\ Len(frames) < Len(prompts)
    /\ image_calls' = image_calls + 1
    /\ frames' = Append(frames, [src |-> Len(frames), w |-> raw_size, h |-> raw_size])
    /\ tries' = 0
    /\ frame_attempts' = AttemptsWith(pipeline, "ok")
    /\ temp_files' = TempFilesWith(pipeline, Len(frames))
    /\ UNCHANGED << pipeline, pc, outcome, requested, num_frames, fps, animation,
                    raw_size, clip_len, prompts, frames_loop, enc_rate, duration,
                    saves, printed, ret >>
    /\ UNCHANGED << calls, attempt, slept, video_url, error, response,
                    conc_vars, more_vars >>

\* one turn of the frame loop: the call of the image service fails; the
\* exception leaves the controller, unless generate_frame_image catches it
\* and goes round its retry loop
GenerateFrameFails ==
    /\ pc = "generate"
    /\ Len(frames) < Len(prompts)
    /\ image_calls' = image_calls + 1
    /\ \E kind \in FailureKinds :
         /\ frame_attempts' = AttemptsWith(pipeline, kind)
         /\ IF RetryAllowed(pipeline, kind, tries)
            THEN /\ tries' = tries + 1
                 /\ UNCHANGED << pc, outcome, error >>
            ELSE /\ error' = kind
                 /\ Raise
                 /\ UNCHANGED tries
    /\ UNCHANGED << pipeline, requested, num_frames, fps, animation, raw_size,
                    clip_len, prompts, frames, frames_loop, enc_rate, duration,
                    saves, printed, ret >>
    /\ UNCHANGED << calls, attempt, slept, video_url, response, temp_files,
                    conc_vars, more_vars >>

\* the rate create_animated_webp / create_animated_sticker is called with
EncoderRate(p, rate) == IF p = "replicate_animation" THEN REPLICATE_ANIMATION_FPS ELSE rate

\* create_animated_webp / create_animated_sticker up to the first save
CreateAnimated ==
    /\ pc = "generate"
    /\ Len(frames) = Len(prompts)
    /\ IF frames = << >>
       THEN \* frames_loop[0] raises IndexError
            /\ Raise
            /\ UNCHANGED << frames_loop, enc_rate, duration, saves >>
       ELSE /\ frames_loop' = BuildLoop(ProcessFrames(frames))
            /\ enc_rate' = EncoderRate(pipeline, fps)
            /\ duration' = Duration(enc_rate')
            /\ \E size \in FileSizes :
                 saves' = << SaveRecord(frames_loop', duration',
                                        FirstQuality(pipeline), size) >>
            /\ pc' = "saved"
            /\ outcome' = outcome
    /\ UNCHANGED << pipeline, requested, num_frames, fps, animation, raw_size,
                    clip_len, prompts, frames, printed, ret, image_calls >>
    /\ UNCHANGED ext_vars

\* generate_sticker / generate_sticker_free returns the source image
GenerateImage ==
    /\ pc = "start"
    /\ pipeline \in SingleImage
    /\ image_calls' = image_calls + 1
    /\ pc' = "synth"
    /\ UNCHANGED << pipeline, outcome, requested, num_frames, fps, animation,
                    raw_size, clip_len, prompts, frames, frames_loop, enc_rate,
                    duration, saves, printed, ret >>
    /\ UNCHANGED ext_vars

GenerateImageFails ==
    /\ pc = "start"
    /\ pipeline \in SingleImage
    /\ image_calls' = image_calls + 1
    /\ Raise
    /\ UNCHANGED << pipeline, requested, num_frames, fps, animation, raw_size,
                    clip_len, prompts, frames, frames_loop, enc_rate, duration,
                    saves, printed, ret >>
    /\ UNCHANGED ext_vars

\* one turn of "for i in range(num_frames)" of create_animated_webp
SynthesizeFrame ==
    /\ pc = "synth"
    /\ Len(frames) < NUM_STICKER_FRAMES
    /\ frames' = Append(frames, SynthFrame(pipeline, animation, BaseImage, Len(frames)))
    /\ UNCHANGED << pipeline, pc, outcome, requested, num_frames, fps, animation,
                    raw_size, clip_len, prompts, frames_loop, enc_rate, duration,
                    saves, printed, ret, image_calls >>
    /\ UNCHANGED ext_vars

\* duration of the single-image pipelines: 1000 // fps in replicate_sticker,
\* the literal 67 in free_sticker and gemini_sticker
StickerDuration(p, rate) == IF p = "replicate_sticker" THEN Duration(rate) ELSE FIXED_DURATION

\* create_animated_webp of a single-image pipeline: the first save
SaveSticker ==
    /\ pc = "synth"
    /\ Len(frames) = NUM_STICKER_FRAMES
    /\ frames_loop' = frames
    /\ enc_rate' = fps
    /\ duration' = StickerDuration(pipeline, fps)
    /\ \E size \in FileSizes :
         saves' = << SaveRecord(frames_loop', duration', FirstQuality(pipeline), size) >>
    /\ pc' = "saved"
    /\ UNCHANGED << pipeline, outcome, requested, num_frames, fps, animation,
                    raw_size, clip_len, prompts, frames, printed, ret, image_calls >>
    /\ UNCHANGED ext_vars

\* generate_runware_transparent_sticker: runware.connect() and
\* runware.videoInference() succeed, the job is submitted
SubmitVideo ==
    /\ pc = "start"
    /\ pipeline = "video"
    /\ pc' = "poll"
    /\ UNCHANGED << pipeline, outcome, requested, num_frames, fps, animation,
                    raw_size, clip_len, prompts, frames, frames_loop, enc_rate,
                    duration, saves, printed, ret, image_calls >>
    /\ UNCHANGED ext_vars

\* the poll loop ends with a video URL
PollReady ==
    /\ pc = "poll"
    /\ pc' = "download"
    /\ UNCHANGED << pipeline, outcome, requested, num_frames, fps, animation,
                    raw_size, clip_len, prompts, frames, frames_loop, enc_rate,
                    duration, saves, printed, ret, image_calls >>
    /\ UNCHANGED ext_vars

\* download, "Extract frames" and "Remove backgrounds": the clip is sampled
\* at fps frames per second and every frame is made RGBA
ExtractVideoFrames ==
    /\ pc = "download"
    /\ frames' = [k \in 1..(fps * clip_len) |->
                    [src |-> k - 1, w |-> raw_size, h |-> raw_size]]
    /\ pc' = "prepare"
    /\ UNCHANGED << pipeline, outcome, requested, num_frames, fps, animation,
                    raw_size, clip_len, prompts, frames_loop, enc_rate, duration,
                    saves, printed, ret, image_calls >>
    /\ UNCHANGED ext_vars

\* the submission, the video job (status "error" or timeout), the download or
\* the background removal fails
VideoFails ==
    /\ pipeline = "video"
    /\ pc \in {"start", "poll", "download"}
    /\ Raise
    /\ UNCHANGED << pipeline, requested, num_frames, fps, animation, raw_size,
                    clip_len, prompts, frames, frames_loop, enc_rate, duration,
                    saves, printed, ret, image_calls >>
    /\ UNCHANGED ext_vars

\* prepare_frames_for_whatsapp and the single save of the video pipeline
SaveVideo ==
    /\ pc = "prepare"
    /\ LET r == prepare_frames_for_whatsapp(frames, fps, MAX_FILE_SIZE(pipeline))
       IN  /\ frames_loop' = r.frames
           /\ enc_rate' = r.fps
    /\ duration' = VideoDuration(enc_rate')
    /\ \E size \in FileSizes :
         saves' = << SaveRecord(frames_loop', duration', FirstQuality(pipeline), size) >>
    /\ pc' = "saved"
    /\ UNCHANGED << pipeline, outcome, requested, num_frames, fps, animation,
                    raw_size, clip_len, prompts, frames, printed, ret, image_calls >>
    /\ UNCHANGED ext_vars

\* console output after the last save: the video pipeline warns when the file
\* is still above MAX_FILE_SIZE, the others print the size only
FinalReport(p, final_size) ==
    IF p = "video" /\ final_size > MAX_FILE_SIZE(p) THEN {"still_over_limit"} ELSE {}

\* Variant: the corrective save is repeated while the file is too large
CompressUntilFits ==
    /\ pc = "saved"
    /\ NeedsCompression(pipeline, saves[Len(saves)].size)
    /\ \E size \in FileSizes :
         /\ saves' = Append(saves, SaveRecord(frames_loop, duration,
                                              SecondQuality(pipeline), size))
         /\ printed' = printed \cup FinalReport(pipeline, size)
         /\ ret' = ReturnValue(pipeline, size)
         /\ IF NeedsCompression(pipeline, size)
            THEN pc' = "saved" /\ outcome' = outcome
            ELSE pc' = "done" /\ outcome' = "returned"
    /\ UNCHANGED << pipeline, requested, num_frames, fps, animation, raw_size,
                    clip_len, prompts, frames, frames_loop, enc_rate, duration,
                    image_calls >>
    /\ temp_files' = CleanupFrames(pipeline, num_frames)
    /\ ReturnUnchanged

\* the measured size triggers the corrective save, whose result is returned
CompressAndReturn ==
    /\ pc = "saved"
    /\ NeedsCompression(pipeline, saves[1].size)
    /\ \E size \in FileSizes :
         /\ saves' = Append(saves, SaveRecord(frames_loop, duration,
                                              SecondQuality(pipeline), size))
         /\ printed' = printed \cup FinalReport(pipeline, size)
         /\ ret' = ReturnValue(pipeline, size)
    /\ pc' = "done"
    /\ outcome' = "returned"
    /\ UNCHANGED << pipeline, requested, num_frames, fps, animation, raw_size,
                    clip_len, prompts, frames, frames_loop, enc_rate, duration,
                    image_calls >>
    /\ temp_files' = CleanupFrames(pipeline, num_frames)
    /\ ReturnUnchanged

\* the measured size does not trigger it: the first file is returned
ReturnFirst ==
    /\ pc = "saved"
    /\ ~NeedsCompression(pipeline, saves[1].size)
    /\ printed' = printed \cup FinalReport(pipeline, saves[1].size)
    /\ ret' = ReturnValue(pipeline, saves[1].size)
    /\ pc' = "done"
    /\ outcome' = "returned"
    /\ UNCHANGED << pipeline, requested, num_frames, fps, animation, raw_size,
                    clip_len, prompts, frames, frames_loop, enc_rate, duration,
                    saves, image_calls >>
    /\ temp_files' = CleanupFrames(pipeline, num_frames)
    /\ ReturnUnchanged

Next ==
    \/ ExpandPrompts
    \/ ExpandFails
    \/ GenerateFrame
    \/ GenerateFrameFails
    \/ CreateAnimated
    \/ GenerateImage
    \/ GenerateImageFails
    \/ SynthesizeFrame
    \/ SaveSticker
    \/ SubmitVideo
    \/ PollReady
    \/ ExtractVideoFrames
    \/ VideoFails
    \/ SaveVideo
    \/ CompressAndReturn
    \/ ReturnFirst

Spec == Init /\ [][Next]_vars

----------------------------------------------------------------------------
\* prepare_frames_for_whatsapp on its own: the same frames and rate negotiated
\* against several byte targets

MaxClipFrames == 8
MaxCalls == 2

\* frame sides: the 512 the estimate is scaled by and the 640 the video
\* request asks for
NegSides == {STICKER_SIZE, VIDEO_SIZE}

\* rates a caller may pass as fps
NegRates == FpsValues \cup {24}

\* byte targets: the default MAX_FILE_SIZE and targets that put the estimate
\* of a few frames in every ratio band, the band edges included
TargetSizes == {500 * 1024, 25000, 12500, 6250, 4000, 2000, 1000, 500}

\* the state every request-level variable keeps outside the request pipelines
RequestIdle ==
    /\ outcome = "running"
    /\ requested = 0
    /\ num_frames = 0
    /\ animation = "none"
    /\ clip_len = 0
    /\ prompts = << >>
    /\ frames_loop = << >>
    /\ enc_rate = 0
    /\ duration = 0
    /\ saves = << >>
    /\ printed = {}
    /\ ret = "none"
    /\ image_calls = 0

NegInit ==
    /\ pipeline = "video"
    /\ pc = "prepare"
    /\ RequestIdle
    /\ raw_size \in NegSides
    /\ fps \in NegRates
    /\ \E n \in 1..MaxClipFrames :
         frames = [k \in 1..n |-> [src |-> k - 1, w |-> raw_size, h |-> raw_size]]
    /\ ExtInit

\* final_frames, final_fps = prepare_frames_for_whatsapp(frames, fps, target)
Negotiate ==
    /\ pc = "prepare"
    /\ Len(calls) < MaxCalls
    /\ \E t \in TargetSizes :
         calls' = Append(calls, [target_size |-> t,
                                 result |-> prepare_frames_for_whatsapp(frames, fps, t)])
    /\ UNCHANGED << pipeline, pc, outcome, requested, num_frames, fps, animation,
                    raw_size, clip_len, prompts, frames, frames_loop, enc_rate,
                    duration, saves, printed, ret, image_calls, attempt, slept,
                    video_url, error, tries, response, frame_attempts,
                    temp_files, conc_vars, more_vars >>

NegNext == Negotiate

NegSpec == NegInit /\ [][NegNext]_vars

\* the same function called with frames of any size: sides below, at and
\* above the three sizes the tiers resize to, width and height apart
FrameSides == {256, 320, 384, 512, 640}

AnySizeInit ==
    /\ pipeline = "video"
    /\ pc = "prepare"
    /\ RequestIdle
    /\ raw_size \in FrameSides
    /\ fps \in {REPLICATE_ANIMATION_FPS, 10}
    /\ \E n \in 1..MaxClipFrames, height \in FrameSides :
         frames = [k \in 1..n |-> [src |-> k - 1, w |-> raw_size, h |-> height]]
    /\ ExtInit

AnySizeSpec == AnySizeInit /\ [][NegNext]_vars

----------------------------------------------------------------------------
\* The poll loop of generate_runware_transparent_sticker ("video") and of
\* generate_runware_video_only ("video_only")

max_attempts == 120
POLL_DELAY == 5

VideoFunctions == {"video", "video_only"}

\* what runware.getResponse may answer: no result yet, a result whose status
\* is neither success nor error, a success with its URL, an error status, a
\* result that has a videoURL and no status attribute, or an exception
Responses == {"empty", "processing", "success", "error", "url_only", "exception"}

\* the message of the exception raised when the loop ends without a URL
TimeoutMessage(p) ==
    IF p = "video" THEN "Timeout waiting for video" ELSE "Video generation timeout"

\* what one turn of the loop does with the answer:
\*   generate_runware_transparent_sticker: status success or a bare videoURL
\*     break with the URL, status error raises, anything else sleeps;
\*   generate_runware_video_only: results[0].status == "success" breaks, a
\*     result without status raises AttributeError, anything else sleeps.
PollBranch(p, resp) ==
    CASE resp = "exception" -> "raise_service"
      [] resp = "empty" -> "sleep"
      [] resp = "success" -> "break"
      [] resp = "processing" -> "sleep"
      [] resp = "error" -> IF p = "video" THEN "raise_failed" ELSE "sleep"
      [] resp = "url_only" -> IF p = "video" THEN "break" ELSE "raise_attribute"

PollError(branch) ==
    CASE branch = "raise_service" -> "getResponse failed"
      [] branch = "raise_failed" -> "Generation failed"
      [] branch = "raise_attribute" -> "AttributeError"
      [] OTHER -> "none"

PollInit ==
    /\ pipeline \in VideoFunctions
    /\ pc = "poll"
    /\ RequestIdle
    /\ raw_size = VIDEO_SIZE
    /\ fps = 0
    /\ frames = << >>
    /\ ExtInit

\* Variant: for attempt in range(max_attempts + 1)
PollOnceMore ==
    /\ pc = "poll"
    /\ attempt < max_attempts + 1
    /\ attempt' = attempt + 1
    /\ \E resp \in Responses :
         LET branch == PollBranch(pipeline, resp)
         IN  /\ response' = resp
             /\ CASE branch = "break" ->
                    /\ video_url' = "url"
                    /\ pc' = "download"
                    /\ UNCHANGED << slept, error, outcome >>
               [] branch = "sleep" ->
                    /\ slept' = slept + POLL_DELAY
                    /\ UNCHANGED << video_url, pc, error, outcome >>
               [] OTHER ->
                    /\ error' = PollError(branch)
                    /\ Raise
                    /\ UNCHANGED << video_url, slept >>
    /\ UNCHANGED << pipeline, requested, num_frames, fps, animation, raw_size,
                    clip_len, prompts, frames, frames_loop, enc_rate, duration,
                    saves, printed, ret, image_calls, calls, tries,
                    frame_attempts, temp_files, conc_vars, more_vars >>

\* one turn of "for attempt in range(max_attempts)": getResponse, the
\* branch on its answer, and asyncio.sleep(5) when the loop goes on
Poll ==
    /\ pc = "poll"
    /\ attempt < max_attempts
    /\ attempt' = attempt + 1
    /\ \E resp \in Responses :
         LET branch == PollBranch(pipeline, resp)
         IN  /\ response' = resp
             /\ CASE branch = "break" ->
                    /\ video_url' = "url"
                    /\ pc' = "download"
                    /\ UNCHANGED << slept, error, outcome >>
               [] branch = "sleep" ->
                    /\ slept' = slept + POLL_DELAY
                    /\ UNCHANGED << video_url, pc, error, outcome >>
               [] OTHER ->
                    /\ error' = PollError(branch)
                    /\ Raise
                    /\ UNCHANGED << video_url, slept >>
    /\ UNCHANGED << pipeline, requested, num_frames, fps, animation, raw_size,
                    clip_len, prompts, frames, frames_loop, enc_rate, duration,
                    saves, printed, ret, image_calls, calls, tries,
                    frame_attempts, temp_files, conc_vars, more_vars >>

\* the loop ran out: "if not video_url: raise Exception(...)"
PollTimeout ==
    /\ pc = "poll"
    /\ attempt >= max_attempts
    /\ video_url = "none"
    /\ error' = TimeoutMessage(pipeline)
    /\ Raise
    /\ UNCHANGED << pipeline, requested, num_frames, fps, animation, raw_size,
                    clip_len, prompts, frames, frames_loop, enc_rate, duration,
                    saves, printed, ret, image_calls, calls, attempt, slept,
                    video_url, tries, response, frame_attempts, temp_files,
                    conc_vars, more_vars >>

PollNext ==
    \/ Poll
    \/ PollTimeout

\* the event loop resumes the coroutine after every await: getResponse
\* answers or raises, asyncio.sleep(5) returns
PollSpec == PollInit /\ [][PollNext]_vars /\ WF_vars(PollNext)

----------------------------------------------------------------------------
\* Concurrent requests to one endpoint and the files they write. The routes
\* are plain "def" handlers, which the server runs in worker threads, so the
\* steps of two requests interleave.

MaxRequests == 2
ConcFrames == 2

Requests == 1..MaxRequests

ConcEndpoints == {"replicate_sticker", "replicate_animation", "free_animation", "video"}

\* A file name: a fixed name (id 0) or a name holding the uuid4 of request
\* id; index is the frame index in the name, if any
FixedName(n) == [name |-> n, id |-> 0, index |-> 0]
UniqueName(n, r) == [name |-> n, id |-> r, index |-> 0]

\* "temp_sticker.png" (controllers/replicate_sticker.py)
TempSticker == FixedName("temp_sticker.png")

\* f"frame_{index}.png" (controllers/replicate_animation.py)
FrameFile(i) == [name |-> "frame.png", id |-> 0, index |-> i]

\* the default output of create_animated_sticker, which generate_animated_sticker
\* never overrides (the route's output_file is not passed on)
SharedOutput == FixedName("animated_sticker_newww_03.webp")

\* f"..._{uuid.uuid4().hex}.webp" of the routes, f"{temp_id}_original.mp4" and
\* f"{temp_id}_transparent.webp" of the video controller
OutputFile(r) == UniqueName("output.webp", r)
OriginalVideo(r) == UniqueName("original.mp4", r)
TransparentWebp(r) == UniqueName("transparent.webp", r)

FileNames ==
    {TempSticker, SharedOutput}
        \cup {[name |-> "frame.png", id |-> 0, index |-> i] : i \in 0..(ConcFrames - 1)}
        \cup {OutputFile(r) : r \in Requests}
        \cup {OriginalVideo(r) : r \in Requests}
        \cup {TransparentWebp(r) : r \in Requests}

\* the path(s) a request of endpoint p hands to its caller
OutputPaths(p, r) ==
    CASE p = "replicate_animation" -> {SharedOutput}
      [] p = "video" -> {OriginalVideo(r), TransparentWebp(r)}
      [] OTHER -> {OutputFile(r)}

\* the path the FileResponse of the route serves
ResponsePath(p, r) ==
    CASE p = "replicate_animation" -> SharedOutput
      [] p = "video" -> OriginalVideo(r)
      [] OTHER -> OutputFile(r)

\* A file: who wrote it last (0: no such file) and whose generated images
\* its content comes from
NoFile == [by |-> 0, of |-> {}]
FileExists(f) == files[f].by # 0
WrittenByOther(f, r) == FileExists(f) /\ files[f].by # r

ConcInit ==
    /\ pipeline \in ConcEndpoints
    /\ pc = "requests"
    /\ RequestIdle
    /\ raw_size = 0
    /\ fps = 0
    /\ frames = << >>
    /\ LoopsIdle
    /\ files = [f \in FileNames |-> NoFile]
    /\ req = [r \in Requests |->
                [pc |-> "start", i |-> 0, img |-> {}, result |-> "running",
                 stage |-> "none", sent |-> {}, crossed |-> FALSE]]
    /\ task_storage = << >>
    /\ served = << >>
    /\ MoreIdle

\* what no request step changes
ConcUnchanged ==
    UNCHANGED << pipeline, pc, outcome, requested, num_frames, fps, animation,
                 raw_size, clip_len, prompts, frames, frames_loop, enc_rate,
                 duration, saves, printed, ret, image_calls, calls, attempt,
                 slept, video_url, error, tries, response, frame_attempts,
                 temp_files, task_storage, served, more_vars >>

\* an exception reaches "except Exception as e: raise HTTPException(500)"
Fail(r, stage) ==
    [req[r] EXCEPT !.pc = "done", !.result = "failed", !.stage = stage]

\* the external service of the first step fails (image or video generation,
\* download); in replicate_sticker the route's finally clause still runs
ServiceFails(r) ==
    /\ req[r].pc = "start"
    /\ req' = [req EXCEPT ![r] =
                 IF pipeline = "replicate_sticker"
                 THEN [@ EXCEPT !.pc = "finally", !.stage = "service"]
                 ELSE Fail(r, "service")]
    /\ UNCHANGED files
    /\ ConcUnchanged

\* generate_sticker: the image is downloaded and written to temp_sticker.png
RsGenerate(r) ==
    /\ pipeline = "replicate_sticker"
    /\ req[r].pc = "start"
    /\ files' = [files EXCEPT ![TempSticker] = [by |-> r, of |-> {r}]]
    /\ req' = [req EXCEPT ![r].pc = "open",
                          ![r].crossed = @ \/ WrittenByOther(TempSticker, r)]
    /\ ConcUnchanged

\* create_animated_webp: Image.open(image_path).convert('RGBA')
RsOpen(r) ==
    /\ pipeline = "replicate_sticker"
    /\ req[r].pc = "open"
    /\ req' = [req EXCEPT ![r] =
                 IF FileExists(TempSticker)
                 THEN [@ EXCEPT !.pc = "encode",
                                !.img = files[TempSticker].of,
                                !.crossed = @ \/ WrittenByOther(TempSticker, r)]
                 ELSE [@ EXCEPT !.pc = "finally", !.stage = "open"]]
    /\ UNCHANGED files
    /\ ConcUnchanged

\* create_animated_webp: the frames are saved to output_path
RsEncode(r) ==
    /\ pipeline = "replicate_sticker"
    /\ req[r].pc = "encode"
    /\ files' = [files EXCEPT ![OutputFile(r)] = [by |-> r, of |-> req[r].img]]
    /\ req' = [req EXCEPT ![r].pc = "finally"]
    /\ ConcUnchanged

\* the route leaves its finally clause: the response, or the HTTP 500 of
\* the exception that was caught
AfterFinally(r) ==
    IF req[r].stage = "none"
    THEN [req[r] EXCEPT !.pc = "respond"]
    ELSE [req[r] EXCEPT !.pc = "done", !.result = "failed"]

\* finally: if os.path.exists("temp_sticker.png")
RsFinallyExists(r) ==
    /\ pipeline = "replicate_sticker"
    /\ req[r].pc = "finally"
    /\ req' = [req EXCEPT ![r] =
                 IF FileExists(TempSticker)
                 THEN [@ EXCEPT !.pc = "remove"]
                 ELSE AfterFinally(r)]
    /\ UNCHANGED files
    /\ ConcUnchanged

\* finally: os.remove("temp_sticker.png"); FileNotFoundError leaves the
\* finally clause and replaces the response
RsRemove(r) ==
    /\ pipeline = "replicate_sticker"
    /\ req[r].pc = "remove"
    /\ IF FileExists(TempSticker)
       THEN /\ files' = [files EXCEPT ![TempSticker] = NoFile]
            /\ req' = [req EXCEPT ![r] =
                         [AfterFinally(r) EXCEPT
                            !.crossed = @ \/ WrittenByOther(TempSticker, r)]]
       ELSE /\ req' = [req EXCEPT ![r] = Fail(r, "cleanup")]
            /\ UNCHANGED files
    /\ ConcUnchanged

\* generate_frame_image: the image of frame i is downloaded and written to
\* frame_i.png
RaDownload(r) ==
    /\ pipeline = "replicate_animation"
    /\ req[r].pc = "start"
    /\ files' = [files EXCEPT ![FrameFile(req[r].i)] = [by |-> r, of |-> {r}]]
    /\ req' = [req EXCEPT ![r].pc = "rembg",
                          ![r].crossed = @ \/ WrittenByOther(FrameFile(req[r].i), r)]
    /\ ConcUnchanged

\* generate_frame_image: Image.open(filepath), remove(img), save(filepath);
\* then the next turn of the frame loop, or create_animated_sticker
RaRembg(r) ==
    /\ pipeline = "replicate_animation"
    /\ req[r].pc = "rembg"
    /\ LET f == FrameFile(req[r].i)
       IN  IF FileExists(f)
           THEN /\ files' = [files EXCEPT ![f] = [by |-> r, of |-> files[f].of]]
                /\ req' = [req EXCEPT ![r] =
                             [@ EXCEPT !.i = IF @ + 1 = ConcFrames THEN 0 ELSE @ + 1,
                                       !.pc = IF req[r].i + 1 = ConcFrames
                                              THEN "combine" ELSE "start",
                                       !.crossed = @ \/ WrittenByOther(f, r)]]
           ELSE /\ req' = [req EXCEPT ![r] = Fail(r, "open")]
                /\ UNCHANGED files
    /\ ConcUnchanged

\* create_animated_sticker: every frame path is opened and the loop is saved
\* to the default output name
RaCombine(r) ==
    /\ pipeline = "replicate_animation"
    /\ req[r].pc = "combine"
    /\ LET paths == {FrameFile(i) : i \in 0..(ConcFrames - 1)}
           loaded == UNION {files[f].of : f \in paths}
       IN  IF \A f \in paths : FileExists(f)
           THEN /\ files' = [files EXCEPT ![SharedOutput] = [by |-> r, of |-> loaded]]
                /\ req' = [req EXCEPT ![r] =
                             [@ EXCEPT !.pc = "cleanup",
                                       !.img = loaded,
                                       !.crossed = \/ @
                                                   \/ \E f \in paths : WrittenByOther(f, r)
                                                   \/ WrittenByOther(SharedOutput, r)]]
           ELSE /\ req' = [req EXCEPT ![r] = Fail(r, "open")]
                /\ UNCHANGED files
    /\ ConcUnchanged

\* cleanup_frames goes on to the next index, or returns
NextCleanup(r) ==
    [req[r] EXCEPT !.i = IF @ + 1 = ConcFrames THEN 0 ELSE @ + 1,
                   !.pc = IF req[r].i + 1 = ConcFrames THEN "respond" ELSE "cleanup"]

\* cleanup_frames: if os.path.exists(filepath)
RaCleanupExists(r) ==
    /\ pipeline = "replicate_animation"
    /\ req[r].pc = "cleanup"
    /\ req' = [req EXCEPT ![r] =
                 IF FileExists(FrameFile(req[r].i))
                 THEN [@ EXCEPT !.pc = "remove"]
                 ELSE NextCleanup(r)]
    /\ UNCHANGED files
    /\ ConcUnchanged

\* cleanup_frames: os.remove(filepath); FileNotFoundError leaves the
\* controller
RaCleanupRemove(r) ==
    /\ pipeline = "replicate_animation"
    /\ req[r].pc = "remove"
    /\ LET f == FrameFile(req[r].i)
       IN  IF FileExists(f)
           THEN /\ files' = [files EXCEPT ![f] = NoFile]
                /\ req' = [req EXCEPT ![r] =
                             [NextCleanup(r) EXCEPT !.crossed = @ \/ WrittenByOther(f, r)]]
           ELSE /\ req' = [req EXCEPT ![r] = Fail(r, "cleanup")]
                /\ UNCHANGED files
    /\ ConcUnchanged

\* free_animation: prompts and frames are generated and kept in memory
FaGenerate(r) ==
    /\ pipeline = "free_animation"
    /\ req[r].pc = "start"
    /\ req' = [req EXCEPT ![r].pc = "encode", ![r].img = {r}]
    /\ UNCHANGED files
    /\ ConcUnchanged

\* create_animated_webp: the first save; the file is over MAX_FILE_SIZE or not
FaEncode(r) ==
    /\ pipeline = "free_animation"
    /\ req[r].pc = "encode"
    /\ files' = [files EXCEPT ![OutputFile(r)] = [by |-> r, of |-> req[r].img]]
    /\ \E over \in BOOLEAN :
         req' = [req EXCEPT ![r].pc = IF over THEN "compress" ELSE "respond"]
    /\ ConcUnchanged

\* create_animated_webp: the second save succeeds
FaCompress(r) ==
    /\ pipeline = "free_animation"
    /\ req[r].pc = "compress"
    /\ files' = [files EXCEPT ![OutputFile(r)] = [by |-> r, of |-> req[r].img]]
    /\ req' = [req EXCEPT ![r].pc = "respond"]
    /\ ConcUnchanged

\* create_animated_webp: the second save raises; the file of the first save
\* stays at output_path
FaCompressFails(r) ==
    /\ pipeline = "free_animation"
    /\ req[r].pc = "compress"
    /\ req' = [req EXCEPT ![r] = Fail(r, "encode")]
    /\ UNCHANGED files
    /\ ConcUnchanged

\* generate_runware_transparent_sticker: the video is downloaded and written
\* to original_video_path
ViDownload(r) ==
    /\ pipeline = "video"
    /\ req[r].pc = "start"
    /\ files' = [files EXCEPT ![OriginalVideo(r)] = [by |-> r, of |-> {r}]]
    /\ req' = [req EXCEPT ![r].pc = "process"]
    /\ ConcUnchanged

\* frames are extracted, backgrounds removed, sizes negotiated
ViProcess(r) ==
    /\ pipeline = "video"
    /\ req[r].pc = "process"
    /\ req' = [req EXCEPT ![r].pc = "encode", ![r].img = files[OriginalVideo(r)].of]
    /\ UNCHANGED files
    /\ ConcUnchanged

\* VideoFileClip, remove() or prepare_frames_for_whatsapp raises: nothing
\* removes the file written to original_video_path
ViProcessFails(r) ==
    /\ pipeline = "video"
    /\ req[r].pc = "process"
    /\ req' = [req EXCEPT ![r] = Fail(r, "processing")]
    /\ UNCHANGED files
    /\ ConcUnchanged

\* the single save to transparent_webp_path
ViEncode(r) ==
    /\ pipeline = "video"
    /\ req[r].pc = "encode"
    /\ files' = [files EXCEPT ![TransparentWebp(r)] = [by |-> r, of |-> req[r].img]]
    /\ req' = [req EXCEPT ![r].pc = "respond"]
    /\ ConcUnchanged

\* the FileResponse of the route is sent: the file at its path is read then
Send(r) ==
    /\ req[r].pc = "respond"
    /\ LET f == ResponsePath(pipeline, r)
       IN  req' = [req EXCEPT ![r] =
                     [@ EXCEPT !.pc = "done",
                               !.result = "returned",
                               !.sent = files[f].of,
                               !.crossed = @ \/ WrittenByOther(f, r)]]
    /\ UNCHANGED files
    /\ ConcUnchanged

ConcNext ==
    \E r \in Requests :
        \/ ServiceFails(r)
        \/ RsGenerate(r)
        \/ RsOpen(r)
        \/ RsEncode(r)
        \/ RsFinallyExists(r)
        \/ RsRemove(r)
        \/ RaDownload(r)
        \/ RaRembg(r)
        \/ RaCombine(r)
        \/ RaCleanupExists(r)
        \/ RaCleanupRemove(r)
        \/ FaGenerate(r)
        \/ FaEncode(r)
        \/ FaCompress(r)
        \/ FaCompressFails(r)
        \/ ViDownload(r)
        \/ ViProcess(r)
        \/ ViProcessFails(r)
        \/ ViEncode(r)
        \/ Send(r)

ConcSpec == ConcInit /\ [][ConcNext]_vars

----------------------------------------------------------------------------
\* The two routes of routes/video_model_animation.py and task_storage

MaxServed == 4

\* task ids: the uuid of the request that generated the files
Tasks == Requests

TaskInit ==
    /\ pipeline = "video"
    /\ pc = "tasks"
    /\ RequestIdle
    /\ raw_size = 0
    /\ fps = 0
    /\ frames = << >>
    /\ LoopsIdle
    /\ files = [f \in FileNames |-> NoFile]
    /\ req = << >>
    /\ task_storage = << >>
    /\ served = << >>
    /\ MoreIdle

\* what no route changes
TaskUnchanged ==
    UNCHANGED << pipeline, pc, outcome, requested, num_frames, fps, animation,
                 raw_size, clip_len, prompts, frames, frames_loop, enc_rate,
                 duration, saves, printed, ret, image_calls, calls, attempt,
                 slept, video_url, error, tries, response, frame_attempts,
                 temp_files, req, more_vars >>

\* task_id = filename.replace("_original.mp4", ""): the uuid in the name
TaskId(original_video_path) == original_video_path.id

\* Variant: the two paths are stored under each other's key
StoredPathsSwapped(original_video_path, transparent_video_path) ==
    [transparent_path |-> original_video_path,
     original_path |-> transparent_video_path]

\* the value of task_storage[task_id]
StoredPaths(original_video_path, transparent_video_path) ==
    [transparent_path |-> transparent_video_path,
     original_path |-> original_video_path]

\* task_storage[task_id] = {...}
StoreTask(original_video_path, transparent_video_path) ==
    LET task_id == TaskId(original_video_path)
    IN  [id \in DOMAIN task_storage \cup {task_id} |->
           IF id = task_id
           THEN StoredPaths(original_video_path, transparent_video_path)
           ELSE task_storage[id]]

\* POST /generate-video-original-by-video-model: the controller wrote both
\* files and the route stores their paths under the task id
GenerateTask(t) ==
    /\ t \notin DOMAIN task_storage
    /\ ~FileExists(OriginalVideo(t))
    /\ files' = [files EXCEPT ![OriginalVideo(t)] = [by |-> t, of |-> {t}],
                              ![TransparentWebp(t)] = [by |-> t, of |-> {t}]]
    /\ task_storage' = StoreTask(OriginalVideo(t), TransparentWebp(t))
    /\ UNCHANGED served
    /\ TaskUnchanged

\* the same route when the controller raises after the download: HTTP 500,
\* nothing is stored
GenerateTaskFails(t) ==
    /\ t \notin DOMAIN task_storage
    /\ ~FileExists(OriginalVideo(t))
    /\ files' = [files EXCEPT ![OriginalVideo(t)] = [by |-> t, of |-> {t}]]
    /\ UNCHANGED << task_storage, served >>
    /\ TaskUnchanged

\* the status get_transparent answers for a task id
TransparentStatus(t) ==
    IF t \notin DOMAIN task_storage THEN 404
    ELSE IF ~FileExists(task_storage[t].transparent_path) THEN 404
    ELSE 200

\* GET /get-transparent-video-by-video-model/{task_id}: the line that adds
\* cleanup_files to the background tasks is commented out, so the route
\* changes neither the files nor task_storage
GetTransparent(t) ==
    /\ served' = Append(IF Len(served) < MaxServed THEN served ELSE Tail(served),
                        [task |-> t, status |-> TransparentStatus(t)])
    /\ UNCHANGED << files, task_storage >>
    /\ TaskUnchanged

\* a file of outputs/ is removed from outside the server (the routes
\* themselves never remove one); get_transparent tests for it with
\* os.path.exists
OutputRemoved(t) ==
    /\ \E f \in {OriginalVideo(t), TransparentWebp(t)} :
         /\ FileExists(f)
         /\ files' = [files EXCEPT ![f] = NoFile]
    /\ UNCHANGED << task_storage, served >>
    /\ TaskUnchanged

TaskNext ==
    \E t \in Tasks :
        \/ GenerateTask(t)
        \/ GenerateTaskFails(t)
        \/ GetTransparent(t)
        \/ OutputRemoved(t)

\* the server goes on serving the requests it is sent
TaskSpec == TaskInit /\ [][TaskNext]_vars /\ WF_vars(TaskNext)

----------------------------------------------------------------------------
\* remove_white_background of free_sticker.py and gemini_sticker.py on its own

MaxPixels == 2

\* the default of the threshold parameter, and a second threshold
DEFAULT_THRESHOLD == 240
Thresholds == {DEFAULT_THRESHOLD, 100}

\* channel values below, at and above the thresholds
ChannelValues == {100, 240, 241}
AlphaValues == {0, 255}

\* modes of the image passed in: a JPEG answer opens as RGB, a PNG as RGBA
ImageModes == {"RGB", "RGBA"}

PixelsOf(mode) ==
    IF mode = "RGB"
    THEN ChannelValues \X ChannelValues \X ChannelValues
    ELSE ChannelValues \X ChannelValues \X ChannelValues \X AlphaValues

\* image.convert("RGBA") of one pixel: an RGB pixel becomes opaque, an RGBA
\* pixel is copied
ConvertRGBA(mode, px) ==
    IF mode = "RGB" THEN << px[1], px[2], px[3], 255 >> ELSE px

\* Variant: the comparison is >=
IsWhiteAtLeast(px, t) == px[1] >= t /\ px[2] >= t /\ px[3] >= t

\* r > threshold and g > threshold and b > threshold
IsWhite(px, t) == px[1] > t /\ px[2] > t /\ px[3] > t

\* pixels[x, y] = (255, 255, 255, 0)
TRANSPARENT == << 255, 255, 255, 0 >>

BgInit ==
    /\ pipeline \in {"free_sticker", "gemini_sticker"}
    /\ pc = "convert"
    /\ RequestIdle
    /\ raw_size = STICKER_SIZE
    /\ fps = 0
    /\ frames = << >>
    /\ LoopsIdle
    /\ ConcIdle
    /\ threshold \in Thresholds
    /\ \E mode \in ImageModes, n \in 1..MaxPixels :
         source \in [mode : {mode}, px : [1..n -> PixelsOf(mode)]]
    /\ pixels = << >>
    /\ scan = 0
    /\ RunIdle
    /\ GuiIdle

\* what remove_white_background leaves alone
BgUnchanged ==
    UNCHANGED << pipeline, requested, num_frames, fps, animation, raw_size,
                 clip_len, prompts, frames, frames_loop, enc_rate, duration,
                 saves, printed, ret, image_calls, calls, attempt, slept,
                 video_url, error, tries, response, frame_attempts,
                 temp_files, conc_vars, threshold, source, run_vars,
                 gui_vars >>

\* image = image.convert("RGBA"); pixels = image.load(): the scan works on
\* a copy, in row order
BgConvert ==
    /\ pc = "convert"
    /\ pixels' = [k \in 1..Len(source.px) |-> ConvertRGBA(source.mode, source.px[k])]
    /\ pc' = "scan"
    /\ UNCHANGED << scan, outcome >>
    /\ BgUnchanged

\* one turn of "for y ... for x ...": the pixel is read and, if white,
\* overwritten
BgScan ==
    /\ pc = "scan"
    /\ scan < Len(pixels)
    /\ scan' = scan + 1
    /\ pixels' = IF IsWhite(pixels[scan + 1], threshold)
                 THEN [pixels EXCEPT ![scan + 1] = TRANSPARENT]
                 ELSE pixels
    /\ UNCHANGED << pc, outcome >>
    /\ BgUnchanged

\* return image
BgReturn ==
    /\ pc = "scan"
    /\ scan = Len(pixels)
    /\ pc' = "done"
    /\ outcome' = "returned"
    /\ UNCHANGED << pixels, scan >>
    /\ BgUnchanged

BgNext ==
    \/ BgConvert
    \/ BgScan
    \/ BgReturn

BgSpec == BgInit /\ [][BgNext]_vars

----------------------------------------------------------------------------
\* The two Runware video functions from connect() to their exit:
\* generate_runware_transparent_sticker ("video") and
\* generate_runware_video_only ("video_only"), with the poll loop above

RunInit ==
    /\ pipeline \in VideoFunctions
    /\ pc = "connect"
    /\ RequestIdle
    /\ raw_size = VIDEO_SIZE
    /\ fps = 0
    /\ frames = << >>
    /\ ExtInit

\* what the steps outside the poll loop leave alone
RunUnchanged ==
    UNCHANGED << pipeline, requested, num_frames, fps, animation, raw_size,
                 clip_len, prompts, frames, frames_loop, enc_rate, duration,
                 saves, printed, ret, image_calls, calls, attempt, slept,
                 video_url, tries, response, frame_attempts, temp_files,
                 conc_vars, bg_vars, gui_vars >>

\* an exception is raised inside the try block
RaiseIn(message) ==
    /\ error' = message
    /\ Raise

\* await runware.connect(), before the try block
RunConnect ==
    /\ pc = "connect"
    /\ connected' = TRUE
    /\ pc' = "submit"
    /\ UNCHANGED << outcome, error, disconnects >>
    /\ RunUnchanged

\* connect() raises: the function is left before its try block
RunConnectFails ==
    /\ pc = "connect"
    /\ error' = "connect failed"
    /\ pc' = "exited"
    /\ outcome' = "raised"
    /\ UNCHANGED << connected, disconnects >>
    /\ RunUnchanged

\* response = await runware.videoInference(requestVideo=request)
RunSubmit ==
    /\ pc = "submit"
    /\ pc' = "poll"
    /\ UNCHANGED << outcome, error, connected, disconnects >>
    /\ RunUnchanged

RunSubmitFails ==
    /\ pc = "submit"
    /\ RaiseIn("videoInference failed")
    /\ UNCHANGED << connected, disconnects >>
    /\ RunUnchanged

\* requests.get, raise_for_status and the write of the mp4; video_only
\* returns its path then
RunDownload ==
    /\ pc = "download"
    /\ pc' = IF pipeline = "video" THEN "extract" ELSE "return"
    /\ UNCHANGED << outcome, error, connected, disconnects >>
    /\ RunUnchanged

RunDownloadFails ==
    /\ pc = "download"
    /\ RaiseIn("download failed")
    /\ UNCHANGED << connected, disconnects >>
    /\ RunUnchanged

\* the steps of generate_runware_transparent_sticker after the download:
\* frame extraction, background removal, negotiation and save
NextStep(step) ==
    CASE step = "extract" -> "remove"
      [] step = "remove" -> "save"
      [] step = "save" -> "return"

RunStep ==
    /\ pc \in {"extract", "remove", "save"}
    /\ pc' = NextStep(pc)
    /\ UNCHANGED << outcome, error, connected, disconnects >>
    /\ RunUnchanged

\* VideoFileClip, remove() or Image.save raises
RunStepFails ==
    /\ pc \in {"extract", "remove", "save"}
    /\ RaiseIn(pc)
    /\ UNCHANGED << connected, disconnects >>
    /\ RunUnchanged

\* Variant: disconnect() is the last statement of the try block
RunFinallyOnReturn ==
    /\ pc = "return"
    /\ disconnects' = disconnects + 1
    /\ pc' = "exited"
    /\ \E ok \in BOOLEAN :
         /\ outcome' = IF ok THEN "returned" ELSE "raised"
         /\ error' = IF ok THEN error ELSE "disconnect failed"
    /\ UNCHANGED connected
    /\ RunUnchanged

\* finally: await runware.disconnect(), on the return and on every
\* exception of the try block; disconnect() may raise itself
RunFinally ==
    /\ pc \in {"return", "failed"}
    /\ disconnects' = disconnects + 1
    /\ pc' = "exited"
    /\ \E ok \in BOOLEAN :
         /\ outcome' = IF ok /\ pc = "return" THEN "returned" ELSE "raised"
         /\ error' = IF ok THEN error ELSE "disconnect failed"
    /\ UNCHANGED connected
    /\ RunUnchanged

RunNext ==
    \/ RunConnect
    \/ RunConnectFails
    \/ RunSubmit
    \/ RunSubmitFails
    \/ Poll
    \/ PollTimeout
    \/ RunDownload
    \/ RunDownloadFails
    \/ RunStep
    \/ RunStepFails
    \/ RunFinally

\* the event loop resumes the coroutine after every await
RunSpec == RunInit /\ [][RunNext]_vars /\ WF_vars(RunNext)

----------------------------------------------------------------------------
\* The window of sticker_app.py: the four panels, their generate buttons,
\* the WorkerThread each click starts and the slots its signals are queued to

MaxWorkers == 2

Panels == {"sticker", "animation", "image", "video"}

\* the task types each generate_* method may pass to start_worker
TaskTypes(panel) ==
    CASE panel = "sticker" -> {"free_sticker", "replicate_sticker", "gemini_sticker"}
      [] panel = "animation" -> {"free_animation", "replicate_animation",
                                 "gemini_animation"}
      [] panel = "image" -> {"image_generation"}
      [] panel = "video" -> {"video_animation"}

\* working directories: a plain one and one with "|" in a directory name
WorkingDirs == {<< "/", "w" >>, << "/", "w", "|", "d" >>}

\* os.path.join(os.getcwd(), "outputs", name): the files of the video
\* controller ("t": ..._transparent.webp, "o": ..._original.mp4)
OutputsPath(name) == cwd \o << "/", name >>

\* params["output_file"] of the other task types, a relative name
OutputFileName == << "f" >>

\* what the controller call of run() may do: return its path(s), return
\* nothing, or raise an Exception
ControllerOutcomes == {"path", "nothing", "raises"}

\* output_path of run() after a controller returned:
\* f"{transparent}|{original}" for video_animation
RunOutputPath(task_type) ==
    IF task_type = "video_animation"
    THEN OutputsPath("t") \o << "|" >> \o OutputsPath("o")
    ELSE OutputFileName

\* str.split(sep)
RECURSIVE Split(_, _)
Split(str, sep) ==
    LET at == {i \in 1..Len(str) : str[i] = sep}
    IN  IF at = {} THEN << str >>
        ELSE LET i == CHOOSE i \in at : \A j \in at : i <= j
             IN  << SubSeq(str, 1, i - 1) >> \o Split(SubSeq(str, i + 1, Len(str)), sep)

\* "|" in output_path
HasBar(str) == \E i \in 1..Len(str) : str[i] = "|"

GuiInit ==
    /\ pipeline = "gui"
    /\ pc = "window"
    /\ RequestIdle
    /\ raw_size = 0
    /\ fps = 0
    /\ frames = << >>
    /\ LoopsIdle
    /\ ConcIdle
    /\ BgIdle
    /\ RunIdle
    /\ cwd \in WorkingDirs
    /\ buttons = [panel \in Panels |-> TRUE]
    /\ workers = << >>

\* what the window and its workers leave alone
GuiUnchanged ==
    UNCHANGED << pipeline, pc, outcome, requested, num_frames, fps, animation,
                 raw_size, clip_len, prompts, frames, frames_loop, enc_rate,
                 duration, saves, printed, ret, image_calls, calls, attempt,
                 slept, video_url, error, tries, response, frame_attempts,
                 temp_files, conc_vars, bg_vars, run_vars, cwd >>

\* a click on the enabled generate button of a panel with a prompt entered:
\* generate_* calls start_worker, which disables the button of panel_type
\* and starts a WorkerThread
StartWorker(panel_type) ==
    /\ buttons[panel_type]
    /\ Len(workers) < MaxWorkers
    /\ \E task_type \in TaskTypes(panel_type) :
         workers' = Append(workers, [task_type |-> task_type,
                                     panel_type |-> panel_type,
                                     pc |-> "run",
                                     emitted |-> << >>,
                                     enabled_by_slot |-> FALSE])
    /\ buttons' = [buttons EXCEPT ![panel_type] = FALSE]
    /\ GuiUnchanged

\* the signal run() emits for an outcome of its controller:
\* finished(output_path) if output_path is non-empty,
\* error("No output generated") if it is empty, error(str(e)) on an Exception
EmittedFor(task_type, result) ==
    IF result = "path" /\ RunOutputPath(task_type) # << >>
    THEN [signal |-> "finished", arg |-> RunOutputPath(task_type)]
    ELSE [signal |-> "error", arg |-> << "e" >>]

\* WorkerThread.run() from its first to its last statement
Run(w) ==
    /\ workers[w].pc = "run"
    /\ \E result \in ControllerOutcomes :
         workers' = [workers EXCEPT ![w] =
                       [@ EXCEPT !.pc = "emitted",
                                 !.emitted = Append(@, EmittedFor(workers[w].task_type,
                                                                  result))]]
    /\ UNCHANGED buttons
    /\ GuiUnchanged

\* the video branch of on_generation_finished unpacks
\* "webp_path, mp4_path = output_path.split("|")" before it touches the
\* button; the unpacking raises ValueError unless there are two parts
FinishedSlotRaises(panel_type, output_path) ==
    /\ panel_type = "video"
    /\ HasBar(output_path)
    /\ Len(Split(output_path, "|")) # 2

\* the queued finished signal reaches on_generation_finished(path, panel_type)
OnGenerationFinished(w) ==
    /\ workers[w].pc = "emitted"
    /\ workers[w].emitted[1].signal = "finished"
    /\ IF FinishedSlotRaises(workers[w].panel_type, workers[w].emitted[1].arg)
       THEN /\ workers' = [workers EXCEPT ![w].pc = "slot_raised"]
            /\ UNCHANGED buttons
       ELSE /\ workers' = [workers EXCEPT ![w].pc = "handled",
                                          ![w].enabled_by_slot = TRUE]
            /\ buttons' = [buttons EXCEPT ![workers[w].panel_type] = TRUE]
    /\ GuiUnchanged

\* the queued error signal reaches on_generation_error(err, panel_type)
OnGenerationError(w) ==
    /\ workers[w].pc = "emitted"
    /\ workers[w].emitted[1].signal = "error"
    /\ workers' = [workers EXCEPT ![w].pc = "handled",
                                  ![w].enabled_by_slot = TRUE]
    /\ buttons' = [buttons EXCEPT ![workers[w].panel_type] = TRUE]
    /\ GuiUnchanged

GuiNext ==
    \/ \E panel_type \in Panels : StartWorker(panel_type)
    \/ \E w \in 1..Len(workers) :
         \/ Run(w)
         \/ OnGenerationFinished(w)
         \/ OnGenerationError(w)

GuiSpec == GuiInit /\ [][GuiNext]_vars

----------------------------------------------------------------------------
\* Properties

\* the byte ceiling of the sticker format, 500 KiB
BYTE_CEILING == 500 * 1024

\* the loop sequence of a multi-frame request has been built and encoded
LoopBuilt == pipeline \in MultiFrame /\ pc \in {"saved", "done"}

\* how often input frame x occurs in s
Occurrences(s, x) == Cardinality({k \in 1..Len(s) : s[k].src = x})

\* the size of the file at the output path
FinalSize == saves[Len(saves)].size

\* C1: for n >= 3 input frames the loop sequence has exactly 2n - 2 frames
\* and input frames 0 and n-1 each occur exactly once in it (5 frames give 8).
C1_LoopLength ==
    (LoopBuilt /\ Len(frames) >= 3) =>
        /\ Len(frames_loop) = 2 * Len(frames) - 2
        /\ Occurrences(frames_loop, 0) = 1
        /\ Occurrences(frames_loop, Len(frames) - 1) = 1
        /\ saves[1].nframes = 2 * Len(frames) - 2

C1_Witness == LoopBuilt /\ Len(frames) = 5 /\ Len(frames_loop) = 8

\* C2: for n >= 3 the loop sequence is the forward frames in order followed
\* by the interior frames in reverse: position k < n holds input frame k and
\* position n+j (j <= n-3) holds input frame n-2-j; the input order is kept.
C2_LoopOrder ==
    (LoopBuilt /\ Len(frames) >= 3) =>
        LET n == Len(frames)
        IN  /\ Len(frames_loop) >= n
            /\ \A k \in 0..(n - 1) : frames_loop[k + 1].src = k
            /\ \A j \in 0..(n - 3) :
                 /\ n + j + 1 <= Len(frames_loop)
                 /\ frames_loop[n + j + 1].src = n - 2 - j
            /\ \A k \in 0..(n - 1) : frames[k + 1].src = k

C2_Witness ==
    /\ LoopBuilt
    /\ Len(frames) = 4
    /\ [k \in 1..Len(frames_loop) |-> frames_loop[k].src] = << 0, 1, 2, 3, 2, 1 >>

\* C3: for n <= 2 input frames loop building appends nothing: the encoded
\* sequence is the input sequence, same length and same order.
C3_ShortUnchanged ==
    (LoopBuilt /\ Len(frames) <= 2) =>
        /\ Len(frames_loop) = Len(frames)
        /\ \A k \in 1..Len(frames) : frames_loop[k].src = frames[k].src
        /\ saves[1].nframes = Len(frames)

C3_Witness == LoopBuilt /\ Len(frames) = 2 /\ Len(frames_loop) = 2

\* C4 as stated: the duration passed to the encoder is round(1000 / rate).
C4_DurationIsRounded ==
    \A k \in 1..Len(saves) :
        enc_rate > 0 => saves[k].duration = PyRound(1000, enc_rate)

\* C4 amended: the duration passed to the encoder is floor(1000 / rate) for
\* the rate the encoder stage is given, the same in every save of the request
\* (one duration for all frames); free_sticker and gemini_sticker take no
\* rate and pass 67.
C4_DurationIsFloor ==
    \A k \in 1..Len(saves) :
        /\ saves[k].duration = duration
        /\ IF pipeline \in {"free_sticker", "gemini_sticker"}
           THEN duration = 67
           ELSE /\ enc_rate > 0
                /\ duration * enc_rate <= 1000
                /\ 1000 < (duration + 1) * enc_rate

C4_Witness ==
    /\ pipeline = "replicate_sticker"
    /\ pc = "done"
    /\ enc_rate = 15
    /\ Len(saves) = 2
    /\ saves[2].duration = 66

\* C5 as stated: in every pipeline the first encode is followed by a
\* corrective re-encode if and only if the first file exceeds 500 KiB.
C5_CompressIffOverCeiling ==
    pc = "done" => (Len(saves) = 2 <=> saves[1].size > BYTE_CEILING)

\* C6: at most two encodes write the output: the first one and at most one
\* corrective one, whose result is returned without a further retry.
C6_AtMostTwoEncodes ==
    /\ Len(saves) <= 2
    /\ Len(saves) = 2 =>
         /\ pc = "done"
         /\ outcome = "returned"
         /\ saves[2].quality < saves[1].quality
    /\ pc = "done" => Len(saves) >= 1

C6_Witness ==
    /\ pc = "done"
    /\ Len(saves) = 2
    /\ NeedsCompression(pipeline, saves[2].size)

C8_CountMismatchFails ==
    (pipeline \in MultiFrame /\ pc # "start" /\ Len(prompts) # num_frames) =>
        /\ image_calls = 0
        /\ saves = << >>
        /\ outcome # "returned"

IsStaticFrame(p, f) ==
    IF p = "replicate_sticker"
    THEN f = BaseImage
    ELSE /\ Len(f.pasted) = 1
         /\ f.pasted[1] = [w |-> 512, h |-> 512, rot |-> 0, pos |-> << 0, 0 >>]

C10_CanvasSize ==
    pipeline \in SingleImage =>
        \A k \in 1..Len(frames) : frames[k].w = 512 /\ frames[k].h = 512

C10_Witness ==
    /\ pipeline = "free_sticker"
    /\ animation = "pulse"
    /\ Len(frames) = 20
    /\ frames[1].pasted[1].w = 460
    /\ frames[6].pasted[1].w = 512
    /\ frames[16].pasted[1].w = 409

----------------------------------------------------------------------------
\* Properties of the size negotiation

\* estimated_size of the negotiated frames: 4000 bytes per 512x512 frame
NegEstimate == Len(frames) * ((raw_size * raw_size * 125) \div 8192)

\* resolution and frame count of the result of a call
ResultSide(c) == c.result.frames[1].w
ResultCount(c) == Len(c.result.frames)

\* every frame of the result of a call is side x side
ResultAllSized(c, side) ==
    \A k \in 1..Len(c.result.frames) :
        c.result.frames[k].w = side /\ c.result.frames[k].h = side

\* the result of a call holds input frames 0, k, 2k, ... in that order
ResultEveryKth(c, k) ==
    /\ ResultCount(c) = (Len(frames) + k - 1) \div k
    /\ \A j \in 1..ResultCount(c) : c.result.frames[j].src = (j - 1) * k

CallRatioQuarter(c) == NegEstimate \div (4 * c.target_size)

\* C13 as stated: a call whose estimate is more than 8 times the byte target
\* returns 256x256 frames, every k-th input frame for k = max(3,
\* floor(ratio/4)) >= 3, and a rate below the input rate and not below 4.
C13_ExtremeReducesRate ==
    \A i \in 1..Len(calls) :
        NegEstimate > 8 * calls[i].target_size =>
            LET k == Max(3, CallRatioQuarter(calls[i]))
            IN  /\ k >= 3
                /\ ResultAllSized(calls[i], 256)
                /\ ResultEveryKth(calls[i], k)
                /\ calls[i].result.fps < fps
                /\ calls[i].result.fps >= 4

\* C13 amended: such a call returns 256x256 frames, every k-th input frame
\* for k = max(3, floor(ratio/4)) >= 3, and the rate max(floor(rate/k), 4):
\* never below 4, below the input rate when that is at least 5, and 4
\* (not reduced) when the input rate is 4 or less.
C13_ExtremeRateFloor ==
    \A i \in 1..Len(calls) :
        NegEstimate > 8 * calls[i].target_size =>
            LET k == Max(3, CallRatioQuarter(calls[i]))
            IN  /\ k >= 3
                /\ ResultAllSized(calls[i], 256)
                /\ ResultEveryKth(calls[i], k)
                /\ calls[i].result.fps = Max(fps \div k, 4)
                /\ calls[i].result.fps >= 4
                /\ fps >= 5 => calls[i].result.fps < fps
                /\ fps <= 4 => calls[i].result.fps = 4

C13_Witness ==
    /\ Len(calls) >= 1
    /\ NegEstimate = 10 * calls[1].target_size
    /\ fps = 24
    /\ Len(frames) = 5
    /\ ResultCount(calls[1]) = 2
    /\ ResultSide(calls[1]) = 256
    /\ calls[1].result.fps = 8

----------------------------------------------------------------------------
\* Properties of the poll loop

\* the request raised the timeout of its poll loop
TimedOut == pc = "failed" /\ error = TimeoutMessage(pipeline)

\* the state facts of C14
PollBounded ==
    /\ attempt <= 120
    /\ pc = "poll" => (video_url = "none" /\ slept = 5 * attempt)
    /\ pc = "download" => (video_url = "url" /\ slept = 5 * (attempt - 1))
    /\ TimedOut => (attempt = 120 /\ slept = 600 /\ video_url = "none")
    /\ (pc = "poll" /\ attempt = 120) => ENABLED PollTimeout

\* C14: in both video functions the poll loop makes at most 120 polls, 5 s
\* apart, and is always left: with a result URL, or with the timeout error
\* once 120 polls found the job pending (or with the error of a failed job
\* or call); it never polls for ever.
C14_PollLoopEnds == [](PollBounded) /\ <>(pc # "poll")

C14_Witness == TimedOut /\ attempt = 120 /\ slept = 600 /\ pipeline = "video_only"

----------------------------------------------------------------------------
\* Properties of failure handling

\* calls of the image service that failed, in a multi-frame request
FailedCalls == image_calls - Len(frames)

\* C18 as stated: a failed call of an external service is fatal for the
\* request: no second call is made for the same frame, and the failure
\* leaves the controller.
C18_FailureIsFatal ==
    /\ tries = 0
    /\ pipeline \in SingleImage => image_calls <= 1
    /\ (pipeline \in MultiFrame /\ FailedCalls > 0) =>
          (FailedCalls = 1 /\ pc = "failed" /\ outcome = "raised")

\* C18 amended: a failed call is fatal and is not repeated, except in
\* generate_frame_image of replicate_animation, which repeats a call that
\* failed with a rate-limit error ("429") up to twice: at most 3 calls per
\* frame, the third failure leaves the controller, and any other failure
\* leaves it at once.
C18_FatalUnlessRateLimited ==
    /\ pipeline \in SingleImage =>
          (image_calls <= 1 /\ tries = 0 /\ (pc = "failed" => outcome = "raised"))
    /\ pipeline \in MultiFrame \ {"replicate_animation"} =>
          /\ tries = 0
          /\ FailedCalls > 0 =>
                (FailedCalls = 1 /\ pc = "failed" /\ outcome = "raised")
    /\ pipeline = "replicate_animation" =>
          /\ tries <= 2
          /\ FailedCalls <= 2 * Len(frames) + tries + (IF error = "none" THEN 0 ELSE 1)
          /\ error # "none" => (pc = "failed" /\ outcome = "raised")
          /\ error = "429" => tries = 2

C18_Witness ==
    /\ pipeline = "replicate_animation"
    /\ pc = "failed"
    /\ error = "429"
    /\ Len(frames) = 1
    /\ image_calls = 4
    /\ tries = 2

----------------------------------------------------------------------------
\* Properties of the artifact

\* every frame handed to the encoder is side x side
EncodedAllSized(side) ==
    \A k \in 1..Len(frames_loop) :
        frames_loop[k].w = side /\ frames_loop[k].h = side

\* prepare_frames_for_whatsapp reported "No compression needed" for the
\* frames of the video request
NoCompressionNeeded ==
    EstimatedCeil(Len(frames), raw_size, raw_size) <= MAX_FILE_SIZE(pipeline)

\* C19 as stated: every artifact written is 512x512, unless the size
\* negotiation of the video pipeline selected a downscaling tier (384, 320
\* or 256); with "no compression needed" the encoded frames are 512x512.
C19_CanonicalResolution ==
    pc \in {"saved", "done"} =>
        \/ EncodedAllSized(512)
        \/ /\ pipeline = "video"
           /\ ~NoCompressionNeeded
           /\ \E side \in {384, 320, 256} : EncodedAllSized(side)

----------------------------------------------------------------------------
\* Properties of concurrent requests and their files

\* C15 as stated: whatever the interleaving of two requests to one endpoint,
\* no request reads, overwrites or deletes a file the other one wrote, and
\* the artifact sent to a request is built from its own frames only.
C15_RequestsIsolated ==
    pc = "requests" =>
        \A r \in Requests :
            /\ ~req[r].crossed
            /\ req[r].sent \subseteq {r}

\* C16 as stated: cleanup of temp files never fails a request: a temp file
\* that is already gone when it is deleted does not stop the request from
\* returning its artifact.
C16_CleanupNeverAborts ==
    pc = "requests" =>
        \A r \in Requests :
            req[r].result = "failed" => req[r].stage # "cleanup"

\* C17 as stated: when a request has failed, no file exists at any of its
\* final output paths.
C17_NoArtifactOnFailure ==
    pc = "requests" =>
        \A r \in Requests :
            req[r].result = "failed" =>
                \A f \in OutputPaths(pipeline, r) : ~FileExists(f)

----------------------------------------------------------------------------
\* Properties of the task routes

\* get_transparent has answered 200 for task t
ServedTransparent(t) ==
    \E k \in 1..Len(served) : served[k].task = t /\ served[k].status = 200

\* both files of task t are gone and t is no longer in task_storage (a
\* request with t then gets 404)
CleanedUp(t) ==
    /\ ~FileExists(OriginalVideo(t))
    /\ ~FileExists(TransparentWebp(t))
    /\ t \notin DOMAIN task_storage
    /\ TransparentStatus(t) = 404

\* C20 as stated: after a successful GET of the transparent file of a task,
\* both files of the task are eventually deleted and the task id leaves
\* task_storage, so that a later request with that id gets 404.
C20_ServedThenCleaned ==
    \A t \in Tasks : [](ServedTransparent(t) => <>CleanedUp(t))

----------------------------------------------------------------------------
\* Properties of remove_white_background

\* pixel k as the function received it, in RGBA
OriginalPixel(k) == ConvertRGBA(source.mode, source.px[k])

\* C21: when remove_white_background has returned, a pixel is set fully
\* transparent (alpha 0) exactly if its R, G and B were all strictly above
\* the threshold; every other pixel, a pixel with a channel equal to the
\* threshold included, has its original R, G, B and alpha.
C21_WhiteIffAllAbove ==
    (pc = "done" /\ source # << >>) =>
        /\ Len(pixels) = Len(source.px)
        /\ \A k \in 1..Len(pixels) :
             LET o == OriginalPixel(k)
                 all_above == o[1] > threshold /\ o[2] > threshold /\ o[3] > threshold
             IN  /\ all_above => pixels[k][4] = 0
                 /\ ~all_above => pixels[k] = o
                 /\ (pixels[k] # o) => all_above

C21_Witness ==
    /\ pc = "done"
    /\ threshold = 240
    /\ Len(pixels) = 2
    /\ source.mode = "RGB"
    /\ source.px[1] = << 241, 241, 241 >>
    /\ pixels[1] = << 255, 255, 255, 0 >>
    /\ source.px[2] = << 241, 240, 241 >>
    /\ pixels[2] = << 241, 240, 241, 255 >>

----------------------------------------------------------------------------
\* Further properties of the size negotiation

\* the stride of the tier a call falls in: 1 up to ratio 4, 2 up to ratio 8,
\* max(3, int(ratio / 4)) beyond
CallStride(c) ==
    IF NegEstimate <= 4 * c.target_size THEN 1
    ELSE IF NegEstimate <= 8 * c.target_size THEN 2
    ELSE Max(3, CallRatioQuarter(c))

\* the input frames the result of a call was made from, in result order
ResultSources(c) == [j \in 1..Len(c.result.frames) |-> c.result.frames[j].src]

\* C22: for every non-empty frame list, ratio and rate the returned list is
\* non-empty and starts with input frame 0; with stride k it holds exactly
\* the input frames 0, k, 2k, ... (ceil(n/k) of them) in their input order.
C22_NonEmptyEveryKth ==
    \A i \in 1..Len(calls) :
        LET c == calls[i]
            n == Len(frames)
            k == CallStride(c)
        IN  /\ ResultCount(c) >= 1
            /\ c.result.frames[1].src = frames[1].src
            /\ frames[1].src = 0
            /\ ResultCount(c) * k >= n
            /\ (ResultCount(c) - 1) * k < n
            /\ ResultSources(c) = [j \in 1..ResultCount(c) |-> (j - 1) * k]

C22_Witness ==
    /\ Len(calls) = 2
    /\ Len(frames) = 8
    /\ CallStride(calls[1]) = 3
    /\ ResultSources(calls[1]) = << 0, 3, 6 >>
    /\ CallStride(calls[2]) = 2
    /\ ResultSources(calls[2]) = << 0, 2, 4, 6 >>

\* the returned rate of a call, as its tier computes it
TierRate(c) ==
    IF NegEstimate <= 4 * c.target_size THEN fps
    ELSE IF NegEstimate <= 8 * c.target_size THEN Max(fps \div 2, 5)
    ELSE Max(fps \div CallStride(c), 4)

C25_NeverEnlarges ==
    \A i \in 1..Len(calls) :
        \A k \in 1..Len(calls[i].result.frames) :
            /\ calls[i].result.frames[k].w <= frames[1].w
            /\ calls[i].result.frames[k].h <= frames[1].h

----------------------------------------------------------------------------
\* Properties of a failed video job

\* C23 as stated: in both video functions a poll that answers status
\* "error" fails the request at once, with an error: no further poll is
\* made and the 120-attempt bound is not waited for.
C23_ErrorStatusIsFatal ==
    response = "error" =>
        /\ pc = "failed"
        /\ outcome = "raised"
        /\ error # "none"

----------------------------------------------------------------------------
\* Properties of the retry loop of generate_frame_image

\* the last attempt of the generate_frame_image call in progress
LastAttempt == frame_attempts[Len(frame_attempts)]

\* C26: generate_frame_image calls the image service at most max_retries (3)
\* times per frame; an attempt is followed by another one only if it failed
\* with "429" and was not the last one; any other failure, or a "429" in the
\* last attempt, leaves the controller at once; every attempt k >= 1 is
\* preceded by a wait of 15 * (k + 1) seconds.
C26_RetryOnRateLimitOnly ==
    pipeline = "replicate_animation" =>
        /\ Len(frame_attempts) <= 3
        /\ \A j \in 1..Len(frame_attempts) :
             LET a == frame_attempts[j]
             IN  /\ a.attempt = j - 1
                 /\ j < Len(frame_attempts) => (a.result = "429" /\ a.attempt < 2)
                 /\ a.attempt >= 1 => a.wait = 15 * (a.attempt + 1)
        /\ frame_attempts # << >> =>
             /\ LastAttempt.result = "other" => (pc = "failed" /\ error = "other")
             /\ (LastAttempt.result = "429" /\ LastAttempt.attempt = 2) =>
                    (pc = "failed" /\ error = "429")
             /\ (LastAttempt.result = "429" /\ LastAttempt.attempt < 2) =>
                    (pc = "generate" /\ error = "none"
                        /\ tries = Len(frame_attempts))
             /\ pc = "failed" => LastAttempt.result # "ok"

C26_Witness ==
    /\ pipeline = "replicate_animation"
    /\ pc = "generate"
    /\ Len(frames) = 2
    /\ Len(frame_attempts) = 3
    /\ [j \in 1..3 |-> frame_attempts[j].result] = << "429", "429", "ok" >>
    /\ [j \in 1..3 |-> frame_attempts[j].wait] = << 12, 30, 45 >>

----------------------------------------------------------------------------
\* Properties of the temp frame files

\* C27 as stated: when generate_animated_sticker of replicate_animation has
\* returned (cleanup=True), no frame_<i>.png written during the request is
\* left on disk, however many prompts the prompt expansion returned.
C27_NoTempFrameLeft ==
    (pipeline = "replicate_animation" /\ pc = "done") => temp_files = {}

----------------------------------------------------------------------------
\* Properties of the connection

\* the state facts of C28: no disconnect without a connection, none while
\* the try block runs, one after the function was left with a connection
DisconnectedOnce ==
    /\ disconnects <= 1
    /\ ~connected => disconnects = 0
    /\ pc # "exited" => disconnects = 0
    /\ (pc = "exited" /\ connected) => disconnects = 1

\* C28: in both video functions, once connect() has succeeded, disconnect()
\* is called exactly once on every exit path: return, status "error",
\* timeout, failed download, failed extraction, background removal or save.
C28_DisconnectExactlyOnce ==
    /\ [](DisconnectedOnce)
    /\ (connected ~> (pc = "exited" /\ disconnects = 1))

C28_Witness ==
    /\ pipeline = "video"
    /\ pc = "exited"
    /\ connected
    /\ outcome = "raised"
    /\ error = "save"
    /\ video_url = "url"
    /\ disconnects = 1

----------------------------------------------------------------------------
\* Properties of task_storage

\* every entry holds the two paths of the generation whose id is its key
EntriesOwnPaths ==
    \A t \in DOMAIN task_storage :
        /\ t \in Tasks
        /\ task_storage[t].original_path = OriginalVideo(t)
        /\ task_storage[t].transparent_path = TransparentWebp(t)
        /\ TaskId(task_storage[t].original_path) = t

\* a step that changes task_storage adds one entry, for a generation that
\* has just written both of its files, and leaves the other entries alone
StoredOnSuccessOnly ==
    task_storage' # task_storage =>
        \E t \in Tasks :
            /\ t \notin DOMAIN task_storage
            /\ DOMAIN task_storage' = DOMAIN task_storage \cup {t}
            /\ \A u \in DOMAIN task_storage : task_storage'[u] = task_storage[u]
            /\ files'[task_storage'[t].original_path] = [by |-> t, of |-> {t}]
            /\ files'[task_storage'[t].transparent_path] = [by |-> t, of |-> {t}]
            /\ ~FileExists(task_storage'[t].transparent_path)

\* a GET whose task id is not stored, or whose transparent file is gone, is
\* answered 404 and changes nothing in task_storage
MissingIs404 ==
    served' # served =>
        LET answer == served'[Len(served')]
            t == answer.task
        IN  /\ task_storage' = task_storage
            /\ (t \notin DOMAIN task_storage
                  \/ ~FileExists(TransparentWebp(t))) => answer.status = 404

\* C29: task_storage gains an entry only when a video generation has
\* completed, the entry of a task id holds the original and transparent
\* paths of that generation, and a GET with an id that was never stored or
\* whose transparent file no longer exists gets 404 and leaves task_storage
\* as it is.
C29_StorageTracksGenerations ==
    /\ [](EntriesOwnPaths)
    /\ [][StoredOnSuccessOnly /\ MissingIs404]_vars

C29_Witness ==
    /\ DOMAIN task_storage = {1}
    /\ task_storage[1].transparent_path = TransparentWebp(1)
    /\ ~FileExists(TransparentWebp(1))
    /\ FileExists(OriginalVideo(2))
    /\ Len(served) = 3
    /\ served[1] = [task |-> 1, status |-> 200]
    /\ served[2] = [task |-> 1, status |-> 404]
    /\ served[3] = [task |-> 2, status |-> 404]

----------------------------------------------------------------------------
\* Properties of the window

\* a started worker has emitted exactly one terminal signal once run() is
\* over, and none before; finished carries a non-empty path
OneTerminalSignal(w) ==
    /\ workers[w].pc = "run" => workers[w].emitted = << >>
    /\ workers[w].pc # "run" =>
         /\ Len(workers[w].emitted) = 1
         /\ workers[w].emitted[1].signal \in {"finished", "error"}
         /\ workers[w].emitted[1].signal = "finished" =>
                workers[w].emitted[1].arg # << >>

\* C30 as stated: every started WorkerThread run emits exactly one terminal
\* signal, finished (with a non-empty path) or error; the generate button of
\* the panel that started it stays disabled from start_worker until the
\* signal is handled, and the slot of either signal enables it again.
C30_OneSignalThenReenabled ==
    pc = "window" =>
        \A w \in 1..Len(workers) :
            /\ OneTerminalSignal(w)
            /\ workers[w].pc \in {"run", "emitted"} => ~buttons[workers[w].panel_type]
            /\ workers[w].pc \notin {"run", "emitted"} => workers[w].enabled_by_slot

====
